---- MODULE Spec2Model ----
(***************************************************************************)
(* A model of the river / motya reverse proxy:                             *)
(*   - the recursive configuration loader (motya-config/src/builder.rs),   *)
(*   - the upstream router (motya/src/proxy/upstream_router.rs),           *)
(*   - the extension module host (river/src/proxy/wasm_modules/module.rs). *)
(* Each part has its own specification; the parts share no state.          *)
(***************************************************************************)
EXTENDS Integers, Sequences, FiniteSets, TLC

(***************************************************************************)
(* Bounds of the model.                                                    *)
(***************************************************************************)
\* include directives, summed over all files read, in the loader runs
MaxIncludes == 3
\* the same, in the runs that vary the files' system/definitions/services
MaxBuildIncludes == 2
\* ".." detours a path may hold before the OS rejects it as too long
MaxDetour == 1
\* routes handed to UpstreamRouter::build
MaxRoutes == 3
\* characters of a request path
MaxPathLen == 4
\* characters of the path of a request handed to pick_peer
MaxPeerPathLen == 3
\* backends of a load balancer
MaxBackends == 2
\* child sections of a service node
MaxChildren == 3
\* listener nodes of a listeners section
MaxListeners == 2
\* children of a connectors section
MaxConnectors == 3
\* routes handed to the CLI builder
MaxCliRoutes == 2
\* tasks that call one extension module at the same time
NumCallers == 3

(***************************************************************************)
(* The file system the loader reads.                                       *)
(***************************************************************************)
Entry == "main"
Files == {"main", "a", "b"}
\* a name no file has: including it fails the read
Ghost == "ghost"

\* An include directive names a file of the (single) config directory
\* either plainly ("a.kdl", "./a.kdl") or through a detour ("../conf/a.kdl"):
\* both name the same file.
LocalIncludes == [form : {"plain", "dotdot"}, file : Files]
IncludeStrs == LocalIncludes \cup {[form |-> "plain", file |-> Ghost]}

NoSys == [present |-> FALSE, threads |-> <<>>, daemonize |-> FALSE,
          upgrade_socket |-> "none", pid_file |-> "none"]
SysSections ==
    { NoSys,
      [present |-> TRUE, threads |-> <<>>,   daemonize |-> TRUE,
       upgrade_socket |-> "none", pid_file |-> "/run/river.pid"],
      [present |-> TRUE, threads |-> <<2>>,  daemonize |-> FALSE,
       upgrade_socket |-> "/run/up.sock", pid_file |-> "none"],
      [present |-> TRUE, threads |-> <<-1>>, daemonize |-> FALSE,
       upgrade_socket |-> "none", pid_file |-> "none"] }

\* leaf definitions: a kind and a fully-qualified name
Leaves == { [kind |-> "chain",  fqdn |-> "motya.inner.one"],
            [kind |-> "chain",  fqdn |-> "motya.inner.two"],
            [kind |-> "plugin", fqdn |-> "motya.inner.one"] }

Range(seq) == { seq[i] : i \in DOMAIN seq }
SeqsUpTo(S, n) == UNION { [1..k -> S] : k \in 0..n }

\* what a file may hold when it has room for n include directives
PlainContents(f, n) ==
    [parses : {TRUE}, includes : SeqsUpTo(IncludeStrs, n), system : {NoSys},
     defs : {{}}, services : {<<>>}]
    \cup {[parses |-> FALSE, includes |-> <<>>, system |-> NoSys,
           defs |-> {}, services |-> <<>>]}
\* the definitions sections a file may hold
DefSets == { {l} : l \in Leaves }
           \cup { { l \in Leaves : l.kind = "chain" } }

\* As in the repository's tests, a file is either a definitions file
\* (def1.kdl) or a file with services and maybe a system section (main.kdl);
\* a service is named after its file.
RichContents(f, n) ==
    [parses : {TRUE}, includes : SeqsUpTo(LocalIncludes, n), system : SysSections,
     defs : {{}}, services : {<<f>>}]
    \cup
    [parses : {TRUE}, includes : SeqsUpTo(LocalIncludes, n), system : {NoSys},
     defs : DefSets, services : {<<>>}]
Contents(rich, f, n) == IF rich THEN RichContents(f, n) ELSE PlainContents(f, n)

Unread == [parses |-> FALSE, includes |-> <<>>, system |-> NoSys,
           defs |-> {}, services |-> <<"unread">>]

(***************************************************************************)
(* State of the loader.                                                    *)
(***************************************************************************)
VARIABLES
    fs,              \* the files on disk, as far as they have been read
    budget,          \* include directives the unread files may still hold
    visited_paths,   \* ConfigLoader.visited_paths
    documents,       \* ConfigLoader.documents
    stack,           \* the active load_recursive calls, innermost first
    pc,              \* where load_entry_point stands
    result,          \* what load_entry_point returned
    global_definitions, \* the DefinitionsTable handed to load_entry_point
    reads,           \* history: how often each file was read and parsed
    loadedBy         \* history: the call and include directive that first visited each path

loaderVars == <<fs, budget, visited_paths, documents, stack, pc, result,
                global_definitions, reads, loadedBy>>

VARIABLES
    router,          \* UpstreamRouter.router: the inserted patterns and their upstreams
    rstate,          \* where UpstreamRouter::build stands
    lookup,          \* the last get_upstream_by_path call and what it returned
    selector_buf,    \* ContextInfo.selector_buf of the request context
    cursor,          \* the round-robin position of each route's balancer
    picked,          \* the last pick_peer call and what it returned
    rejected         \* the upstream whose insertion made build return an InsertError

routerVars == <<router, rstate, lookup, selector_buf, cursor, picked, rejected>>

VARIABLES
    holder,          \* the caller that holds WasmModuleFilter.store's lock (0: free)
    waiters,         \* the callers awaiting the lock, in arrival order
    cpc,             \* where each caller's call_filter stands
    in_store,        \* the callers whose guest call is running against the store
    outcome          \* what each caller's last call_filter returned

wasmVars == <<holder, waiters, cpc, in_store, outcome>>

VARIABLES
    kstate,          \* where extract_services (or the CLI builder) stands
    proxies,         \* extract_services: the ProxyConfigs pushed so far
    file_servers,    \* extract_services: the FileServerConfigs pushed so far
    svc_node,        \* the service node of the current loop turn and what became of it
    kresult,         \* what extract_services returned
    cli,             \* the last CliConfigBuilder call and what it returned
    extracted        \* the last call of a node extractor: its node and its result

kdlVars == <<kstate, proxies, file_servers, svc_node, kresult, cli, extracted>>

VARIABLES
    factory,         \* the last from_settings call of a filter and what it returned
    upstream_response  \* the headers of an upstream response before and after each run of the filter

filterVars == <<factory, upstream_response>>

VARIABLES
    service,         \* the proxy service that runs: its upstreams and its router
    exchange         \* the last request the service handled, and its answer

proxyVars == <<service, exchange>>

vars == <<loaderVars, routerVars, wasmVars, kdlVars, filterVars, proxyVars>>

(***************************************************************************)
(* Paths.                                                                  *)
(***************************************************************************)
\* std::fs::canonicalize: the one absolute, detour-free name of the file
Canonicalize(p) == [file |-> p.file, detours |-> 0, abs |-> TRUE]

\* path.parent() joined with the include string
Join(path, inc) ==
    [file    |-> inc.file,
     detours |-> path.detours + (IF inc.form = "dotdot" THEN 1 ELSE 0),
     abs     |-> path.abs]

IsAbsolute(p) == p.abs

\* the path an include directive of the file at `path` is loaded under
IncludePath(path, inc) ==
    LET include_path == Join(path, inc) IN
    IF IsAbsolute(include_path) THEN include_path
    ELSE IF include_path.file \in Files THEN Canonicalize(include_path)
         ELSE include_path

\* fs::read_to_string
Readable(p) == p.file \in Files /\ p.detours <= MaxDetour

(***************************************************************************)
(* build_config.                                                           *)
(***************************************************************************)
DefaultThreads == 8

\* the system section of a document
ParseSystemData(body) ==
    IF ~body.system.present
    THEN [ok |-> TRUE, threads_per_service |-> DefaultThreads, daemonize |-> FALSE,
          upgrade_socket |-> "none", pid_file |-> "none"]
    ELSE LET t == body.system.threads IN
         IF t # <<>> /\ t[1] < 0
         THEN [ok |-> FALSE, threads_per_service |-> 0, daemonize |-> FALSE,
               upgrade_socket |-> "none", pid_file |-> "none"]
         ELSE [ok |-> TRUE,
               threads_per_service |-> IF t = <<>> THEN DefaultThreads ELSE t[1],
               daemonize |-> body.system.daemonize,
               upgrade_socket |-> body.system.upgrade_socket,
               pid_file |-> body.system.pid_file]

FirstDoc(docs) == docs[1]
\* self.documents.last()
EntryDoc(docs) == docs[Len(docs)]

NoLeaf == [kind |-> "none", fqdn |-> "none"]
EmptyTable == {}

\* DefinitionsTable::merge: leaves of equal kind and name collide
Merge(table, defs) ==
    LET colliding == table \cap defs IN
    IF colliding # {}
    THEN [ok |-> FALSE, table |-> table, leaf |-> CHOOSE l \in colliding : TRUE]
    ELSE [ok |-> TRUE, table |-> table \cup defs, leaf |-> NoLeaf]

RECURSIVE MergeAll(_, _)
MergeAll(docs, table) ==
    IF docs = <<>> THEN [ok |-> TRUE, table |-> table, leaf |-> NoLeaf]
    ELSE LET m == Merge(table, Head(docs).body.defs) IN
         IF ~m.ok THEN m ELSE MergeAll(Tail(docs), m.table)

GetAvailableFilters(table) == { l.fqdn : l \in { x \in table : x.kind = "chain" } }

OnlyEntryDoc(docs) == <<docs[Len(docs)]>>
\* the documents whose definitions and services are processed
DocsToProcess(docs) == docs

RECURSIVE AllServices(_)
AllServices(docs) ==
    IF docs = <<>> THEN <<>>
    ELSE Head(docs).body.services \o AllServices(Tail(docs))

\* the chain a service names with use-chain in its connectors, if any; a
\* service is named after its file
NoChain == "none"
UseChains == {NoChain, "motya.inner.one"}
NoUses == [f \in Files |-> NoChain]
\* the services sections are read by the third step of build_config only:
\* what their services refer to is settled there
UsesOf(docs) ==
    { uses \in [Files -> UseChains] :
         \A f \in Files :
            uses[f] # NoChain => \E i \in DOMAIN docs : f \in Range(docs[i].body.services) }

NoConfig == [threads_per_service |-> 0, daemonize |-> FALSE, upgrade_socket |-> "none",
             pid_file |-> "none", basic_proxies |-> <<>>]
Failure(kind, leaf, table) ==
    [ok |-> FALSE, error |-> kind, leaf |-> leaf, config |-> NoConfig, table |-> table,
     use_chain |-> NoUses]

\* a build that parses the services of a document before it merges the
\* definitions of the documents after it
ServicesBeforeLaterDefinitions(docs, table, uses) ==
    { i \in DOMAIN docs :
         \E f \in Range(docs[i].body.services) :
            /\ uses[f] # NoChain
            /\ uses[f] \notin GetAvailableFilters(UNION { docs[j].body.defs : j \in 1..i }) }

\* the documents whose services section names a chain the table does not hold
Unresolved(docs, table, uses) ==
    { i \in DOMAIN docs :
         \E f \in Range(docs[i].body.services) :
            uses[f] # NoChain /\ uses[f] \notin GetAvailableFilters(table) }

\* ServicesSection::new(global_definitions).parse_node(doc), for every
\* document that has a services section
ParseServices(docs, table, uses) ==
    IF Unresolved(docs, table, uses) # {}
    THEN [ok |-> FALSE, proxies |-> <<>>]
    ELSE [ok |-> TRUE, proxies |-> AllServices(docs)]

BuildConfigResult(docs, table, uses) ==
    IF docs = <<>> THEN Failure("No configuration documents loaded", NoLeaf, table)
    ELSE
    LET sys == ParseSystemData(EntryDoc(docs).body) IN
    IF ~sys.ok THEN [Failure("system", NoLeaf, table) EXCEPT !.use_chain = uses]
    ELSE
    LET m == MergeAll(DocsToProcess(docs), table) IN
    IF ~m.ok
    THEN [Failure("Duplicate definition across files", m.leaf, m.table)
             EXCEPT !.use_chain = uses]
    ELSE
    LET services_config == ParseServices(DocsToProcess(docs), m.table, uses) IN
    IF ~services_config.ok
    THEN [Failure("Chain not found", NoLeaf, m.table) EXCEPT !.use_chain = uses]
    ELSE [ok |-> TRUE, error |-> "none", leaf |-> NoLeaf,
          config |-> [threads_per_service |-> sys.threads_per_service,
                      daemonize |-> sys.daemonize,
                      upgrade_socket |-> sys.upgrade_socket,
                      pid_file |-> sys.pid_file,
                      basic_proxies |-> services_config.proxies],
          table |-> m.table, use_chain |-> uses]

(***************************************************************************)
(* load_recursive.                                                         *)
(***************************************************************************)
NoResult == [ok |-> FALSE, error |-> "pending", leaf |-> NoLeaf, config |-> NoConfig,
             table |-> EmptyTable, use_chain |-> NoUses]

PushFront(docs, doc) == <<doc>> \o docs
\* self.documents.push(doc)
PushDocument(docs, doc) == Append(docs, doc)

Fail(kind) ==
    /\ pc' = "failed"
    /\ result' = Failure(kind, NoLeaf, global_definitions)
    /\ stack' = <<>>

\* The head of load_recursive(path), called by `by` with `rest` the calls
\* that remain active: the visited check, the read and the parse.
EnterFile(path, by, idx, rest, rich) ==
    IF path \in visited_paths
    THEN /\ stack' = rest
         /\ pc' = "loading"
         /\ UNCHANGED <<fs, budget, visited_paths, result, reads, loadedBy>>
    ELSE /\ visited_paths' = visited_paths \cup {path}
         /\ loadedBy' = loadedBy \cup {[path |-> path, by |-> by, idx |-> idx]}
         /\ IF ~Readable(path)
            THEN /\ Fail("Failed to read file")
                 /\ UNCHANGED <<fs, budget, reads>>
            ELSE \E body \in (IF fs[path.file] = Unread
                              THEN Contents(rich, path.file, budget)
                              ELSE {fs[path.file]}) :
                    /\ fs' = [fs EXCEPT ![path.file] = body]
                    /\ budget' = IF fs[path.file] = Unread
                                 THEN budget - Len(body.includes) ELSE budget
                    /\ reads' = [reads EXCEPT ![path.file] = @ + 1]
                    /\ IF ~body.parses
                       THEN Fail("Failed to parse KDL")
                       ELSE /\ stack' = <<[path |-> path, body |-> body, next |-> 1]>> \o rest
                            /\ pc' = "loading"
                            /\ UNCHANGED result

NoPath == [file |-> "none", detours |-> 0, abs |-> TRUE]

\* load_entry_point(Some(path), ..): canonicalize, then load_recursive(root_path)
RootPath == Canonicalize([file |-> Entry, detours |-> 0, abs |-> FALSE])

LoadEntryPoint(rich) ==
    /\ pc = "start"
    /\ EnterFile(RootPath,
                 NoPath, 0, <<>>, rich)
    /\ UNCHANGED <<documents, global_definitions, routerVars, wasmVars, kdlVars, filterVars, proxyVars>>

\* one turn of `for path_str in raw_includes`: the recursive call
CallInclude(rich) ==
    /\ pc = "loading"
    /\ stack # <<>>
    /\ LET top == Head(stack) IN
       /\ top.next <= Len(top.body.includes)
       /\ EnterFile(IncludePath(top.path, top.body.includes[top.next]),
                    top.path, top.next,
                    <<[top EXCEPT !.next = @ + 1]>> \o Tail(stack), rich)
    /\ UNCHANGED <<documents, global_definitions, routerVars, wasmVars, kdlVars, filterVars, proxyVars>>

\* the loop is over: push the document and return
Return ==
    /\ pc = "loading"
    /\ stack # <<>>
    /\ LET top == Head(stack) IN
       /\ top.next > Len(top.body.includes)
       /\ documents' = PushDocument(documents, [path |-> top.path, body |-> top.body])
    /\ stack' = Tail(stack)
    /\ pc' = IF Tail(stack) = <<>> THEN "loaded" ELSE "loading"
    /\ UNCHANGED <<fs, budget, visited_paths, result, global_definitions, reads, loadedBy>>
    /\ UNCHANGED <<routerVars, wasmVars, kdlVars, filterVars, proxyVars>>

BuildConfig ==
    /\ pc = "loaded"
    /\ \E uses \in UsesOf(documents) :
          LET r == BuildConfigResult(documents, global_definitions, uses) IN
          /\ result' = r
          /\ global_definitions' = r.table
    /\ pc' = "done"
    /\ UNCHANGED <<fs, budget, visited_paths, documents, stack, reads, loadedBy>>
    /\ UNCHANGED <<routerVars, wasmVars, kdlVars, filterVars, proxyVars>>


(***************************************************************************)
(* The upstream router.  A path is a sequence of characters; "{*name}" is  *)
(* the one token the trie reads as a catch-all parameter.                  *)
(***************************************************************************)
Slash == "/"
PathChars == {Slash, "a", "b"}
CatchAll == "{*catch_all}"
Wildcards == {CatchAll, "{*foo}"}

\* the request paths: every path of up to MaxPathLen characters
RequestPaths ==
    { p \in UNION { [1..k -> PathChars] : k \in 1..MaxPathLen } : p[1] = Slash }

\* the prefix paths routes are configured with
RawPaths ==
    { <<Slash>>, <<Slash, "a">>, <<Slash, "a", Slash>>, <<Slash, "a", Slash, "b">>,
      <<Slash, "b">>, <<Slash, "a", Slash, "{*foo}">> }

\* the mock upstream of the router's tests: round robin over one backend
MockBalancer == [selector |-> "null", kind |-> "RoundRobin", backends |-> 1]
Balancers ==
    [selector : {"null", "UriPath", "SourceAddrAndUriPath"},
     kind : {"RoundRobin", "Random", "FNVHash", "KetamaHashing"},
     backends : 0..MaxBackends]

Upstreams(B) == [prefix : RawPaths, matcher : {"Exact", "Prefix"}, balancer : B]
\* the upstreams of the routers that serve pick_peer
PeerUpstreams ==
    [prefix : {<<Slash>>, <<Slash, "a">>}, matcher : {"Exact", "Prefix"}, balancer : Balancers]

IsPrefixOf(p, q) == Len(p) <= Len(q) /\ SubSeq(q, 1, Len(p)) = p

RECURSIVE TrimEndSlashes(_)
\* raw_path.trim_end_matches('/')
TrimEndSlashes(p) ==
    IF p # <<>> /\ p[Len(p)] = Slash THEN TrimEndSlashes(SubSeq(p, 1, Len(p) - 1)) ELSE p

PatternExactAsPrefix(item) ==
    LET clean_path == TrimEndSlashes(item.prefix) IN
    IF clean_path = <<>> THEN <<Slash, CatchAll>> ELSE clean_path \o <<Slash, CatchAll>>
\* the pattern build inserts for an upstream
Pattern(item) ==
    IF item.matcher = "Exact" THEN item.prefix
    ELSE LET clean_path == TrimEndSlashes(item.prefix) IN
         IF clean_path = <<>> THEN <<Slash, CatchAll>>
         ELSE clean_path \o <<Slash, CatchAll>>

\* matchit: a pattern is static text, with at most a catch-all as its end
HasCatchAll(pat) == pat[Len(pat)] \in Wildcards
StaticPart(pat) == IF HasCatchAll(pat) THEN SubSeq(pat, 1, Len(pat) - 1) ELSE pat
ValidPattern(pat) == \A i \in 1..(Len(pat) - 1) : pat[i] \notin Wildcards
\* two patterns the trie cannot hold together
Conflict(p1, p2) == StaticPart(p1) = StaticPart(p2) /\ HasCatchAll(p1) = HasCatchAll(p2)

InsertUnderCatchAllFails(r, pat, item) ==
    IF \/ ~ValidPattern(pat)
       \/ \E e \in r : Conflict(e.pattern, pat)
       \/ \E e \in r : HasCatchAll(e.pattern) /\ Len(StaticPart(e.pattern)) < Len(StaticPart(pat))
                           /\ SubSeq(StaticPart(pat), 1, Len(StaticPart(e.pattern))) = StaticPart(e.pattern)
    THEN [ok |-> FALSE, router |-> r]
    ELSE [ok |-> TRUE, router |-> r \cup {[pattern |-> pat, value |-> item]}]
\* an insert that puts the new route in the place of the one it conflicts with
InsertOverwrites(r, pat, item) ==
    IF ~ValidPattern(pat) THEN [ok |-> FALSE, router |-> r]
    ELSE [ok |-> TRUE,
          router |-> { e \in r : ~Conflict(e.pattern, pat) }
                        \cup {[pattern |-> pat, value |-> item]}]
\* Router::insert
Insert(r, pat, item) ==
    IF ~ValidPattern(pat) \/ \E e \in r : Conflict(e.pattern, pat)
    THEN [ok |-> FALSE, router |-> r]
    ELSE [ok |-> TRUE, router |-> r \cup {[pattern |-> pat, value |-> item]}]

MatchesLiteral(pat, path) == pat = path
\* a pattern matches a path: static text matches itself, a catch-all one or
\* more characters after its static part
Matches(pat, path) ==
    IF HasCatchAll(pat)
    THEN IsPrefixOf(StaticPart(pat), path) /\ Len(path) > Len(StaticPart(pat))
    ELSE pat = path

None == [some |-> FALSE, value |-> [prefix |-> <<>>, matcher |-> "none", balancer |-> MockBalancer]]
Some(item) == [some |-> TRUE, value |-> item]

AtRootFirst(r, path) ==
    LET hits == { e \in r : Matches(e.pattern, path) }
        best == CHOOSE e \in hits :
                    \A o \in hits : Len(StaticPart(o.pattern)) >= Len(StaticPart(e.pattern))
    IN IF hits = {} THEN None ELSE Some(best.value)
\* Router::at: static text is tried before a catch-all, and the search backs
\* up to the nearest catch-all it passed
At(r, path) ==
    LET hits == { e \in r : Matches(e.pattern, path) }
        best == CHOOSE e \in hits :
                    \A o \in hits : Len(StaticPart(o.pattern)) <= Len(StaticPart(e.pattern))
    IN IF hits = {} THEN None ELSE Some(best.value)

\* self.router.at(path).ok().map(|v| v.value)
\* a lookup that falls back on some route when the trie has no match
GetUpstreamOrAny(r, path) ==
    IF At(r, path).some \/ r = {} THEN At(r, path)
    ELSE Some((CHOOSE e \in r : TRUE).value)

GetUpstreamByPath(r, path) == At(r, path)

RECURSIVE BuildFrom(_, _)
\* the loop of build over the remaining paths
BuildFrom(r, paths) ==
    IF paths = <<>> THEN [ok |-> TRUE, router |-> r]
    ELSE LET ins == Insert(r, Pattern(Head(paths)), Head(paths)) IN
         IF ~ins.ok THEN ins ELSE BuildFrom(ins.router, Tail(paths))

NoLookup == [path |-> <<>>, result |-> None]
NoPick == [path |-> <<>>, seen |-> 0, key |-> <<>>, outcome |-> "none", backend |-> 0,
           selector_calls |-> 0, select_calls |-> 0]

\* one turn of `for item in paths`: the next upstream is inserted
BuildInsert ==
    /\ rstate = "building"
    /\ Cardinality(router) < MaxRoutes
    /\ \E item \in Upstreams({MockBalancer}) :
          LET ins == Insert(router, Pattern(item), item) IN
          /\ router' = ins.router
          /\ rstate' = IF ins.ok THEN "building" ELSE "error"
          \* router.insert(..)?
          /\ rejected' = IF ins.ok THEN None ELSE Some(item)
    /\ UNCHANGED <<lookup, selector_buf, cursor, picked, loaderVars, wasmVars, kdlVars, filterVars, proxyVars>>

\* the loop is over: Ok(Self { router })
BuildFinish ==
    /\ rstate = "building"
    /\ rstate' = "built"
    /\ UNCHANGED <<router, lookup, selector_buf, cursor, picked, rejected, loaderVars, wasmVars, kdlVars, filterVars, proxyVars>>

\* get_upstream_by_path takes &self and leaves the router as it is: every
\* lookup is the first lookup of some behaviour, so a behaviour records one
Lookup ==
    /\ rstate = "built"
    /\ lookup = NoLookup
    /\ \E path \in RequestPaths :
          lookup' = [path |-> path, result |-> GetUpstreamByPath(router, path)]
    /\ UNCHANGED <<router, rstate, selector_buf, cursor, picked, rejected, loaderVars, wasmVars, kdlVars, filterVars, proxyVars>>



(***************************************************************************)
(* pick_peer: the key selector, the balancer, the scratch buffer.          *)
(***************************************************************************)
\* the bytes of the client's socket address
SourceAddr == "addr"

\* Balancer::selector: the key of a request, and the scratch buffer after it
Selector(bal, buf, path) ==
    IF bal.selector = "null" THEN [key |-> <<>>, buf |-> buf]
    ELSE IF bal.selector = "UriPath" THEN [key |-> path, buf |-> buf]
    ELSE LET written == buf \o <<SourceAddr>> \o path IN
         [key |-> written, buf |-> written]

\* the hash of a key, up to what the balancers need of it
KeyHash(key) == Len(key)

\* Balancer::select: the backend (0: none), and the round-robin position after it
Select(bal, key, cur, random) ==
    IF bal.backends = 0 THEN [backend |-> 0, cursor |-> cur]
    ELSE IF bal.kind = "RoundRobin"
         THEN [backend |-> (cur % bal.backends) + 1, cursor |-> (cur + 1) % bal.backends]
    ELSE IF bal.kind = "Random"
         THEN [backend |-> random, cursor |-> cur]
    ELSE [backend |-> (KeyHash(key) % bal.backends) + 1, cursor |-> cur]

KeepBuf(buf) == buf
\* ctx.selector_buf.clear()
ClearBuf(buf) == <<>>

\* the request paths pick_peer is called with
PeerPaths == { p \in RequestPaths : Len(p) <= MaxPeerPathLen }
\* what a Random balancer may draw
RandomDraws(bal) ==
    IF bal.kind = "Random" /\ bal.backends > 0 THEN 1..bal.backends ELSE {1}

PickPeer ==
    /\ rstate = "serving"
    /\ \E path \in PeerPaths :
          LET upstream == GetUpstreamByPath(router, path) IN
          IF ~upstream.some
          THEN /\ picked' = [path |-> path, seen |-> Len(selector_buf), key |-> <<>>,
                             outcome |-> "no upstream", backend |-> 0,
                             selector_calls |-> 0, select_calls |-> 0]
               /\ UNCHANGED <<selector_buf, cursor>>
          ELSE \E random \in RandomDraws(upstream.value.balancer) :
               LET bal == upstream.value.balancer
                   sel == Selector(bal, selector_buf, path)
                   got == Select(bal, sel.key, cursor, random)
               IN /\ selector_buf' = ClearBuf(sel.buf)
                  /\ cursor' = got.cursor
                  /\ picked' = [path |-> path, seen |-> Len(selector_buf), key |-> sel.key,
                                outcome |-> IF got.backend = 0 THEN "error" ELSE "peer",
                                backend |-> got.backend,
                                selector_calls |-> 1, select_calls |-> 1]
    /\ UNCHANGED <<router, rstate, lookup, rejected, loaderVars, wasmVars, kdlVars, filterVars, proxyVars>>

InitRouterIdle ==
    /\ router = {}
    /\ rstate = "off"
    /\ lookup = NoLookup
    /\ selector_buf = <<>>
    /\ cursor = 0
    /\ picked = NoPick
    /\ rejected = None


(***************************************************************************)
(* The extension module host: call_filter on one WasmModuleFilter.         *)
(***************************************************************************)
Callers == 1..NumCallers

LockIgnored(h, w) == TRUE
\* Mutex::lock finds the lock free, with nobody queued before the caller
LockAvailable(h, w) == h = 0 /\ w = <<>>

\* self.store.lock().await: take the lock, or queue for it
CallFilter(c) ==
    /\ cpc[c] = "idle"
    /\ IF LockAvailable(holder, waiters)
       THEN /\ holder' = c
            /\ cpc' = [cpc EXCEPT ![c] = "locked"]
            /\ UNCHANGED waiters
       ELSE /\ waiters' = Append(waiters, c)
            /\ cpc' = [cpc EXCEPT ![c] = "waiting"]
            /\ UNCHANGED holder
    /\ UNCHANGED <<in_store, outcome, loaderVars, routerVars, kdlVars, filterVars, proxyVars>>

\* the lock was handed to the waiting caller: its lock().await completes
Resume(c) ==
    /\ cpc[c] = "waiting"
    /\ holder = c
    /\ cpc' = [cpc EXCEPT ![c] = "locked"]
    /\ UNCHANGED <<holder, waiters, in_store, outcome, loaderVars, routerVars, kdlVars, filterVars, proxyVars>>

\* self.instance.call_filter(store, ..) starts running the guest
GuestEnter(c) ==
    /\ cpc[c] = "locked"
    /\ in_store' = in_store \cup {c}
    /\ cpc' = [cpc EXCEPT ![c] = "in_guest"]
    /\ UNCHANGED <<holder, waiters, outcome, loaderVars, routerVars, kdlVars, filterVars, proxyVars>>

\* a return that drops the guard only when the guest call did not fail
GuestReturnHoldsOnError(c) ==
    /\ cpc[c] = "in_guest"
    /\ \E r \in {"Ok(true)", "Ok(false)", "Err"} :
          /\ outcome' = [outcome EXCEPT ![c] = r]
          /\ holder' = IF r = "Err" THEN holder
                       ELSE IF waiters = <<>> THEN 0 ELSE Head(waiters)
          /\ waiters' = IF r = "Err" \/ waiters = <<>> THEN waiters ELSE Tail(waiters)
    /\ in_store' = in_store \ {c}
    /\ cpc' = [cpc EXCEPT ![c] = "idle"]
    /\ UNCHANGED <<loaderVars, routerVars, kdlVars, filterVars, proxyVars>>

\* the guest call returns; the guard is dropped and the lock passes to the
\* first waiter
GuestReturn(c) ==
    /\ cpc[c] = "in_guest"
    /\ \E r \in {"Ok(true)", "Ok(false)", "Err"} : outcome' = [outcome EXCEPT ![c] = r]
    /\ in_store' = in_store \ {c}
    /\ holder' = IF waiters = <<>> THEN 0 ELSE Head(waiters)
    /\ waiters' = IF waiters = <<>> THEN <<>> ELSE Tail(waiters)
    /\ cpc' = [cpc EXCEPT ![c] = "idle"]
    /\ UNCHANGED <<loaderVars, routerVars, kdlVars, filterVars, proxyVars>>

InitWasmIdle ==
    /\ holder = 0
    /\ waiters = <<>>
    /\ cpc = [c \in Callers |-> "idle"]
    /\ in_store = {}
    /\ outcome = [c \in Callers |-> "none"]

(***************************************************************************)
(* The factories of the built-in response filters.  A settings map is a    *)
(* function of the keys a filter node may carry; Absent marks a missing key.*)
(***************************************************************************)
SettingKeys == {"key", "value", "pattern", "extra"}
Absent == "absent"
\* "(" is a text that is no regular expression, "a\nb" a text of two lines
SettingValues == {"x", "(", "a\nb"}
SettingsMaps == [SettingKeys -> SettingValues \cup {Absent}]
NoSettings == [k \in SettingKeys |-> Absent]

ResponseFilters == {"river.response.upsert-header", "river.response.remove-header"}

FactoryError(msg) == [ok |-> FALSE, error |-> msg, filter |-> NoSettings]
Built(filter) == [ok |-> TRUE, error |-> "none", filter |-> filter]

\* helpers::extract_val: the value of the key, taken out of the map
ExtractVal(key, settings) ==
    IF settings[key] = Absent
    THEN [ok |-> FALSE, val |-> Absent, settings |-> settings]
    ELSE [ok |-> TRUE, val |-> settings[key],
          settings |-> [settings EXCEPT ![key] = Absent]]

\* helpers::ensure_empty
EnsureEmpty(settings) == settings = NoSettings

\* Regex::new
RegexNew(pat) == pat # "("

\* UpsertHeader::from_settings
UpsertHeaderFromSettings(settings) ==
    LET key == ExtractVal("key", settings)
        value == ExtractVal("value", key.settings)
    IN IF ~key.ok THEN FactoryError("Missing key")
       ELSE IF ~value.ok THEN FactoryError("Missing key")
       ELSE Built([NoSettings EXCEPT !["key"] = key.val, !["value"] = value.val])

\* RemoveHeaderKeyRegex::from_settings
RemoveHeaderFromSettings(settings) ==
    LET mat == ExtractVal("pattern", settings) IN
    IF ~mat.ok THEN FactoryError("Missing key")
    ELSE IF ~RegexNew(mat.val) THEN FactoryError("Error building regex")
    ELSE IF ~EnsureEmpty(mat.settings) THEN FactoryError("Unexpected settings")
    ELSE Built([NoSettings EXCEPT !["pattern"] = mat.val])

\* the factory load_registry registers under the filter's name
FromSettings(kind, settings) ==
    IF kind = "river.response.upsert-header" THEN UpsertHeaderFromSettings(settings)
    ELSE RemoveHeaderFromSettings(settings)

NoFactoryCall == [kind |-> "none", settings |-> NoSettings, result |-> FactoryError("none")]

\* no upstream response has come in
NoResponse == [trail |-> <<>>, panicked |-> FALSE]

\* a chain entry is resolved: the factory is invoked with the entry's settings
RegisterFactoryCall ==
    /\ upstream_response = NoResponse
    /\ \E kind \in ResponseFilters, settings \in SettingsMaps :
          factory' = [kind |-> kind, settings |-> settings,
                      result |-> FromSettings(kind, settings)]
    /\ UNCHANGED <<upstream_response, loaderVars, routerVars, wasmVars, kdlVars, proxyVars>>

(***************************************************************************)
(* The two response filters at work on the header of an upstream response  *)
(* (motya/src/proxy/filters/builtin/response).  A header set gives every   *)
(* name its values in order; a name without values is absent.              *)
(***************************************************************************)
MaxFilterRuns == 2
HeaderNames == {"x", "xy", "b"}
HeaderSets == [HeaderNames -> {<<>>, <<"old">>, <<"old", "x">>}]

\* HeaderName::try_from and HeaderValue::try_from: "(" is no token, and a
\* line break is allowed neither in a name nor in a value
ValidHeaderName(name) == name \notin {"(", "a\nb"}
ValidHeaderValue(value) == value # "a\nb"

\* Regex::is_match: the pattern is found somewhere in the name
IsMatch(pattern, name) == pattern = "x" /\ name \in {"x", "xy"}

\* ResponseHeader::remove_header: all values of the name go, the first is returned
RemoveHeader(header, name) ==
    IF name \in DOMAIN header /\ header[name] # <<>>
    THEN [some |-> TRUE, header |-> [header EXCEPT ![name] = <<>>]]
    ELSE [some |-> FALSE, header |-> header]

\* ResponseHeader::append_header
AppendHeader(header, name, value) ==
    IF ~ValidHeaderName(name) \/ ~ValidHeaderValue(value)
    THEN [ok |-> FALSE, header |-> header]
    ELSE [ok |-> TRUE,
          header |-> [n \in DOMAIN header \cup {name} |->
                         IF n = name
                         THEN (IF n \in DOMAIN header THEN header[n] ELSE <<>>) \o <<value>>
                         ELSE header[n]]]

Filtered(header) == [header |-> header, panicked |-> FALSE]
Panicked(header) == [header |-> header, panicked |-> TRUE]

\* UpsertHeader::upstream_response_filter
UpsertHeader(filter, header) ==
    LET removed == RemoveHeader(header, filter["key"]).header IN
    \* let _ = header.append_header(..)
    Filtered(AppendHeader(removed, filter["key"], filter["value"]).header)

RECURSIVE CollectVec(_)
CollectVec(names) ==
    IF names = {} THEN <<>>
    ELSE LET k == CHOOSE n \in names : TRUE IN <<k>> \o CollectVec(names \ {k})

RECURSIVE Repeat(_, _)
Repeat(name, n) == IF n = 0 THEN <<>> ELSE <<name>> \o Repeat(name, n - 1)

RECURSIVE Flatten(_)
Flatten(seqs) == IF seqs = <<>> THEN <<>> ELSE Head(seqs) \o Flatten(Tail(seqs))

\* an iteration that yields a name once for each of its values
KeysPerValue(header) ==
    LET names == CollectVec({n \in DOMAIN header : header[n] # <<>>}) IN
    Flatten([i \in DOMAIN names |-> Repeat(names[i], Len(header[names[i]]))])

\* HeaderMap::keys: every name that has a value, once
Keys(header) == CollectVec({n \in DOMAIN header : header[n] # <<>>})

\* for h in headers { assert!(header.remove_header(&h).is_some()); }
RECURSIVE RemoveLoop(_, _)
RemoveLoop(header, headers) ==
    IF headers = <<>> THEN Filtered(header)
    ELSE LET removed == RemoveHeader(header, Head(headers)) IN
         IF ~removed.some THEN Panicked(removed.header)
         ELSE RemoveLoop(removed.header, Tail(headers))

\* RemoveHeaderKeyRegex::upstream_response_filter
RemoveHeaderKeyRegex(filter, header) ==
    RemoveLoop(header, SelectSeq(Keys(header), LAMBDA k : IsMatch(filter["pattern"], k)))

\* ResponseModifyMod::upstream_response_filter of the filter the factory built
UpstreamResponseFilterOf(kind, filter, header) ==
    IF kind = "river.response.upsert-header" THEN UpsertHeader(filter, header)
    ELSE RemoveHeaderKeyRegex(filter, header)

\* an upstream response arrives for a chain that holds the built filter
ReceiveResponse ==
    /\ factory.result.ok /\ upstream_response = NoResponse
    /\ \E header \in HeaderSets : upstream_response' = [trail |-> <<header>>, panicked |-> FALSE]
    /\ UNCHANGED <<factory, loaderVars, routerVars, wasmVars, kdlVars, proxyVars>>

\* the filter runs on the header the last run left
UpstreamResponseFilter ==
    /\ upstream_response.trail # <<>> /\ ~upstream_response.panicked
    /\ Len(upstream_response.trail) <= MaxFilterRuns
    /\ LET ran == UpstreamResponseFilterOf(factory.kind, factory.result.filter,
                                           upstream_response.trail[Len(upstream_response.trail)])
       IN upstream_response' = [trail |-> Append(upstream_response.trail, ran.header),
                       panicked |-> ran.panicked]
    /\ UNCHANGED <<factory, loaderVars, routerVars, wasmVars, kdlVars, proxyVars>>

InitFilterIdle == factory = NoFactoryCall /\ upstream_response = NoResponse

(***************************************************************************)
(* A running proxy service: its upstreams, their router, and the requests  *)
(* it answers.                                                             *)
(***************************************************************************)
NoArg == "absent"
\* the arguments a `return` connector may carry
ReturnArgs == [code : {NoArg, "200", "404", "abc"}, response : {NoArg, "OK"}]

\* StatusCode::from_str
ValidStatusCode(code) == code \in {"200", "404"}

\* extract_connector, name == "return"
ExtractReturn(args, prefix_path) ==
    LET http_code_raw == IF args.code = NoArg THEN "200" ELSE args.code
        response == IF args.response = NoArg THEN "" ELSE args.response
    IN IF ~ValidStatusCode(http_code_raw)
       THEN [ok |-> FALSE, upstream |-> <<>>]
       ELSE [ok |-> TRUE,
             upstream |-> [kind |-> "Static", prefix |-> prefix_path, matcher |-> "none",
                           http_code |-> http_code_raw, body |-> response,
                           chain |-> <<>>, peer |-> "none"]]

\* a `section` of the connectors block: a route with its chain and its peer
Section(prefix_path, matcher, name) ==
    [kind |-> "Service", prefix |-> prefix_path, matcher |-> matcher,
     http_code |-> "none", body |-> "", chain |-> <<name>>, peer |-> name]

\* UpstreamContext::get_route_type
GetRouteType(upstream) ==
    IF upstream.kind = "Static" THEN "Exact" ELSE upstream.matcher

\* the UpstreamContext the router holds for an upstream
Context(upstream) ==
    [prefix |-> upstream.prefix, matcher |-> GetRouteType(upstream),
     balancer |-> MockBalancer, upstream |-> upstream]

\* the services that are run: one whose only connector is a `return`, the
\* two-route service with a chain per route, the CLI's single static string
PathB == <<Slash, "b">>
ServiceConfigs ==
    { [kind |-> "return", args |-> args, upstreams |-> <<ExtractReturn(args, p).upstream>>] :
          args \in { a \in ReturnArgs : ValidStatusCode(IF a.code = NoArg THEN "200" ELSE a.code) },
          p \in {<<Slash>>, <<Slash, "a">>} }
    \cup
    { [kind |-> "routes", args |-> [code |-> NoArg, response |-> NoArg],
       upstreams |-> <<Section(<<Slash, "a">>, ma, "A"), Section(PathB, mb, "B")>>] :
          ma \in {"Exact", "Prefix"}, mb \in {"Exact", "Prefix"} }
    \cup
    { [kind |-> "hello", args |-> [code |-> NoArg, response |-> NoArg],
       upstreams |-> <<[kind |-> "Static", prefix |-> <<Slash>>, matcher |-> "none",
                        http_code |-> "200", body |-> "hello", chain |-> <<>>,
                        peer |-> "none"]>>] }

ContentType == <<"Content-Type", "text/plain; charset=utf-8">>

NoExchange ==
    [path |-> <<>>, matched |-> FALSE, status |-> "none", body |-> "", headers |-> {},
     keepalive |-> "on", finished |-> FALSE, peer |-> "none", applied |-> <<>>]

\* SimpleResponse::request_filter
EmitStatic(path, upstream) ==
    [path |-> path, matched |-> TRUE, status |-> upstream.http_code, body |-> upstream.body,
     headers |-> {ContentType}, keepalive |-> "off", finished |-> TRUE,
     peer |-> "none", applied |-> <<>>]

\* a request matched by a Service upstream: the chains of the matched
\* UpstreamContext run, and the request is forwarded to its peer
Forward(path, upstream) ==
    [path |-> path, matched |-> TRUE, status |-> "200", body |-> "Response from " \o upstream.peer,
     headers |-> {}, keepalive |-> "on", finished |-> TRUE,
     peer |-> upstream.peer, applied |-> upstream.chain]

\* the router's miss: no upstream, 404
NotFound(path) ==
    [NoExchange EXCEPT !.path = path, !.status = "404", !.finished = TRUE]

\* the orchestrator: Route, then EmitStatic or the upstream's chains and Forward
HandleRequest(r, path) ==
    LET found == GetUpstreamByPath(r, path) IN
    IF ~found.some THEN NotFound(path)
    ELSE IF found.value.upstream.kind = "Static" THEN EmitStatic(path, found.value.upstream)
    ELSE Forward(path, found.value.upstream)

RECURSIVE Contexts(_)
Contexts(upstreams) ==
    IF upstreams = <<>> THEN <<>>
    ELSE <<Context(Head(upstreams))>> \o Contexts(Tail(upstreams))

\* the service starts: UpstreamRouter::build over its upstreams
StartService ==
    /\ service.state = "configured"
    /\ LET built == BuildFrom({}, Contexts(service.config.upstreams)) IN
       service' = [service EXCEPT !.state = IF built.ok THEN "running" ELSE "failed",
                                  !.router = built.router]
    /\ UNCHANGED <<exchange, loaderVars, routerVars, wasmVars, kdlVars, filterVars>>

\* a GET of some path arrives and is answered
Request ==
    /\ service.state = "running"
    /\ \E path \in RequestPaths : exchange' = HandleRequest(service.router, path)
    /\ UNCHANGED <<service, loaderVars, routerVars, wasmVars, kdlVars, filterVars>>

NoService ==
    [state |-> "off", router |-> {},
     config |-> [kind |-> "none", args |-> [code |-> NoArg, response |-> NoArg], upstreams |-> <<>>]]

InitProxyIdle ==
    /\ service = NoService
    /\ exchange = NoExchange

(***************************************************************************)
(* The services section of a KDL document, and the CLI's synthetic Config. *)
(***************************************************************************)
\* the child sections a service node may hold
ChildNames ==
    {"listeners", "connectors", "path-control", "rate-limiting", "file-server", "invalid-node"}
proxy_node_set == {"listeners", "connectors", "path-control", "rate-limiting"}
file_server_node_set == {"listeners", "file-server"}

\* the names of the service nodes of the document, in document order
ServiceNames == <<"Example", "Other">>

ChildSeqs == SeqsUpTo(ChildNames, MaxChildren)
\* a listener node: a bindable address with sound arguments, or not
ListenerSeqs == SeqsUpTo({"ok", "bad"}, MaxListeners)
\* a child of connectors: a load-balance block, a valid connector (host:port
\* or return), or a name that is no socket address
ConnectorSeqs == SeqsUpTo({"load-balance", "connector", "bad"}, MaxConnectors)

Bad(msg, what) == [ok |-> FALSE, error |-> msg, what |-> what]
Fine == [ok |-> TRUE, error |-> "none", what |-> {}]

\* the fingerprint_set loop: the first child whose name was seen before
Duplicates(children) ==
    { i \in DOMAIN children : \E j \in 1..(i - 1) : children[j] = children[i] }
FirstDuplicate(children) ==
    children[CHOOSE i \in Duplicates(children) : \A j \in Duplicates(children) : i <= j]

ClassifyFileServerFirst(fingerprint_set) ==
    IF fingerprint_set \subseteq file_server_node_set THEN "file-server"
    ELSE IF fingerprint_set \subseteq proxy_node_set THEN "proxy"
    ELSE "unknown"
\* what extract_services takes a service with these child names for
Classify(fingerprint_set) ==
    IF fingerprint_set \subseteq proxy_node_set THEN "proxy"
    ELSE IF fingerprint_set \subseteq file_server_node_set THEN "file-server"
    ELSE "unknown"

\* the names the "Unknown configuration section(s)" message lists
Novel(fingerprint_set) == fingerprint_set \ (proxy_node_set \cup file_server_node_set)

\* the listeners part of extract_service and of extract_file_server
ExtractListeners(children, listeners) ==
    IF "listeners" \notin Range(children) THEN Bad("section is required", {"listeners"})
    ELSE IF listeners = <<>> THEN Bad("nonzero listeners required", {})
    ELSE IF "bad" \in Range(listeners) THEN Bad("bad listener", {})
    ELSE Fine

NoLoadBalance == [some |-> FALSE, options |-> "default"]
ConnectorsResult(res, conn_cfgs, load_balance) ==
    [res |-> res, conn_cfgs |-> conn_cfgs, load_balance |-> load_balance]

RECURSIVE ConnectorsLoop(_, _, _)
\* the loop of process_connectors_node over the remaining children
ConnectorsLoop(conns, conn_cfgs, load_balance) ==
    IF conns = <<>>
    THEN IF conn_cfgs = <<>>
         THEN ConnectorsResult(Bad("We require at least one connector", {}), <<>>, NoLoadBalance)
         ELSE ConnectorsResult(Fine, conn_cfgs, load_balance)
    ELSE IF Head(conns) = "load-balance"
         THEN IF load_balance.some
              THEN ConnectorsResult(Bad("Duplicate 'load-balance' section", {}), <<>>, NoLoadBalance)
              ELSE ConnectorsLoop(Tail(conns), conn_cfgs, [some |-> TRUE, options |-> "custom"])
    ELSE IF Head(conns) = "bad"
         THEN ConnectorsResult(Bad("Not a valid socket address", {}), <<>>, NoLoadBalance)
    ELSE ConnectorsLoop(Tail(conns), Append(conn_cfgs, Head(conns)), load_balance)

ConnectorsLastBlockWins(children, conns) ==
    IF "connectors" \notin Range(children)
    THEN ConnectorsResult(Bad("section is required", {"connectors"}), <<>>, NoLoadBalance)
    ELSE LET kept == SelectSeq(conns, LAMBDA c : c # "load-balance") IN
         IF "bad" \in Range(conns)
         THEN ConnectorsResult(Bad("Not a valid socket address", {}), <<>>, NoLoadBalance)
         ELSE IF kept = <<>>
         THEN ConnectorsResult(Bad("We require at least one connector", {}), <<>>, NoLoadBalance)
         ELSE ConnectorsResult(Fine, kept,
                  IF "load-balance" \in Range(conns)
                  THEN [some |-> TRUE, options |-> "custom"] ELSE NoLoadBalance)
\* ConfigParser::process_connectors_node
ProcessConnectorsNode(children, conns) ==
    IF "connectors" \notin Range(children)
    THEN ConnectorsResult(Bad("section is required", {"connectors"}), <<>>, NoLoadBalance)
    ELSE ConnectorsLoop(conns, <<>>, NoLoadBalance)

NoProxyConfig == [name |-> "none", listeners |-> <<>>, upstreams |-> <<>>,
                  upstream_options |-> "default"]
ServiceResult(res, config) == [res |-> res, config |-> config]

\* extract_service
ExtractService(name, children, listeners, conns, rest_ok) ==
    LET ls == ExtractListeners(children, listeners)
        cs == ProcessConnectorsNode(children, conns)
    IN IF ~ls.ok THEN ServiceResult(ls, NoProxyConfig)
       ELSE IF ~cs.res.ok THEN ServiceResult(cs.res, NoProxyConfig)
       ELSE IF ~rest_ok THEN ServiceResult(Bad("bad path-control or rate-limiting", {}), NoProxyConfig)
       ELSE ServiceResult(Fine,
                [name |-> name, listeners |-> listeners, upstreams |-> cs.conn_cfgs,
                 upstream_options |-> cs.load_balance.options])

\* extract_file_server
ExtractFileServer(name, children, listeners) ==
    LET ls == ExtractListeners(children, listeners) IN
    IF ~ls.ok THEN ServiceResult(ls, NoProxyConfig)
    ELSE IF "file-server" \notin Range(children)
         THEN ServiceResult(Bad("section is required", {"file-server"}), NoProxyConfig)
    ELSE ServiceResult(Fine, [NoProxyConfig EXCEPT !.name = name, !.listeners = listeners])

CheckAfterClassification(children) ==
    IF Classify(Range(children)) = "unknown" THEN FALSE ELSE Duplicates(children) # {}
\* the duplicate check at the head of the loop body
DuplicateFound(children) == Duplicates(children) # {}

\* one turn of the loop of extract_services over a service node
VisitNode(name, children, listeners, conns, rest_ok) ==
    LET class == Classify(Range(children)) IN
    IF DuplicateFound(children)
    THEN [class |-> "none",
          outcome |-> ServiceResult(Bad("Duplicate section", {FirstDuplicate(children)}),
                                    NoProxyConfig)]
    ELSE IF class = "proxy"
    THEN [class |-> class, outcome |-> ExtractService(name, children, listeners, conns, rest_ok)]
    ELSE IF class = "file-server"
    THEN [class |-> class, outcome |-> ExtractFileServer(name, children, listeners)]
    ELSE [class |-> class,
          outcome |-> ServiceResult(Bad("Unknown configuration section(s)",
                                        Novel(Range(children))), NoProxyConfig)]

\* the contents of a service node as far as the parser reads them
ListenersRead(children) ==
    IF ~DuplicateFound(children) /\ Classify(Range(children)) # "unknown"
       /\ "listeners" \in Range(children)
    THEN ListenerSeqs ELSE {<<>>}
ConnectorsRead(children, listeners) ==
    IF ~DuplicateFound(children) /\ Classify(Range(children)) = "proxy"
       /\ ExtractListeners(children, listeners).ok /\ "connectors" \in Range(children)
    THEN ConnectorSeqs ELSE {<<>>}
RestRead(children, listeners, conns) ==
    IF ~DuplicateFound(children) /\ Classify(Range(children)) = "proxy"
       /\ ExtractListeners(children, listeners).ok
       /\ ProcessConnectorsNode(children, conns).res.ok
       /\ Range(children) \cap {"path-control", "rate-limiting"} # {}
    THEN BOOLEAN ELSE {TRUE}

NoNode ==
    [name |-> "none", children |-> <<>>, listeners |-> <<>>, connectors |-> <<>>,
     class |-> "none", connectors_result |-> ConnectorsResult(Fine, <<>>, NoLoadBalance),
     outcome |-> ServiceResult(Fine, NoProxyConfig)]
NoCli == [called |-> "none", routes |-> <<>>, result |-> ServiceResult(Fine, NoProxyConfig)]

\* the loop body of extract_services for the next service node of the document
VisitService ==
    /\ kstate = "loop"
    /\ cli = NoCli
    /\ Len(proxies) + Len(file_servers) < Len(ServiceNames)
    /\ LET name == ServiceNames[Len(proxies) + Len(file_servers) + 1] IN
       \E children \in ChildSeqs :
       \E listeners \in ListenersRead(children) :
       \E conns \in ConnectorsRead(children, listeners) :
       \E rest_ok \in RestRead(children, listeners, conns) :
          LET v == VisitNode(name, children, listeners, conns, rest_ok) IN
          /\ svc_node' = [name |-> name, children |-> children, listeners |-> listeners,
                          connectors |-> conns, class |-> v.class,
                          connectors_result |-> ProcessConnectorsNode(children, conns),
                          outcome |-> v.outcome]
          /\ kstate' = IF v.outcome.res.ok THEN "visited" ELSE "failed"
          /\ kresult' = IF v.outcome.res.ok THEN kresult ELSE v.outcome.res
    /\ UNCHANGED <<proxies, file_servers, cli, extracted>>
    /\ UNCHANGED <<loaderVars, routerVars, wasmVars, filterVars, proxyVars>>

\* proxies.push(..) or file_servers.push(..), and on to the next service node
PushService ==
    /\ kstate = "visited"
    /\ IF svc_node.class = "proxy"
       THEN /\ proxies' = Append(proxies, svc_node.outcome.config)
            /\ UNCHANGED file_servers
       ELSE /\ file_servers' = Append(file_servers, svc_node.outcome.config)
            /\ UNCHANGED proxies
    /\ svc_node' = NoNode
    /\ kstate' = "loop"
    /\ UNCHANGED <<kresult, cli, extracted>>
    /\ UNCHANGED <<loaderVars, routerVars, wasmVars, filterVars, proxyVars>>

\* the loop is over: "No services defined", or Ok((proxies, file_servers))
ReturnServices ==
    /\ kstate = "loop"
    /\ cli = NoCli
    /\ kstate' = "done"
    /\ kresult' = IF proxies = <<>> /\ file_servers = <<>>
                  THEN Bad("No services defined", {}) ELSE Fine
    /\ UNCHANGED <<proxies, file_servers, svc_node, cli, extracted>>
    /\ UNCHANGED <<loaderVars, routerVars, wasmVars, filterVars, proxyVars>>

\* a SyntheticRoute: a path that parses or not, and its action (a proxy url
\* may fail to parse or to resolve)
CliRoutes == [path_ok : BOOLEAN, action : {"Static", "Proxy", "BadProxy"}]

RECURSIVE RoutesLoop(_, _)
\* the loop of build_routes over the remaining routes
RoutesLoop(routes, upstreams) ==
    IF routes = <<>> THEN [res |-> Fine, upstreams |-> upstreams]
    ELSE IF ~Head(routes).path_ok THEN [res |-> Bad("Invalid route path", {}), upstreams |-> <<>>]
    ELSE IF Head(routes).action = "BadProxy"
         THEN [res |-> Bad("Invalid proxy url", {}), upstreams |-> <<>>]
    ELSE RoutesLoop(Tail(routes), Append(upstreams, Head(routes).action))

\* CliConfigBuilder::build_routes: the ProxyConfig of the Config it returns
BuildRoutes(routes) ==
    LET looped == RoutesLoop(routes, <<>>) IN
    IF ~looped.res.ok THEN ServiceResult(looped.res, NoProxyConfig)
    ELSE ServiceResult(Fine,
             [name |-> "CLI-Router", listeners |-> <<"ok">>, upstreams |-> looped.upstreams,
              upstream_options |-> "default"])

\* CliConfigBuilder::build_hello
BuildHello == BuildRoutes(<<[path_ok |-> TRUE, action |-> "Static"]>>)

\* the program is started with --routes
CallBuildRoutes ==
    /\ kstate = "loop" /\ cli = NoCli /\ svc_node = NoNode
    /\ proxies = <<>> /\ file_servers = <<>>
    /\ \E routes \in SeqsUpTo(CliRoutes, MaxCliRoutes) :
          LET built == BuildRoutes(routes) IN
          /\ cli' = [called |-> "build_routes", routes |-> routes, result |-> built]
          /\ proxies' = IF built.res.ok THEN <<built.config>> ELSE <<>>
    /\ kstate' = "cli"
    /\ UNCHANGED <<file_servers, svc_node, kresult, extracted>>
    /\ UNCHANGED <<loaderVars, routerVars, wasmVars, filterVars, proxyVars>>

\* the program is started with the single-string shorthand
CallBuildHello ==
    /\ kstate = "loop" /\ cli = NoCli /\ svc_node = NoNode
    /\ proxies = <<>> /\ file_servers = <<>>
    /\ cli' = [called |-> "build_hello", routes |-> <<>>, result |-> BuildHello]
    /\ proxies' = <<BuildHello.config>>
    /\ kstate' = "cli"
    /\ UNCHANGED <<file_servers, svc_node, kresult, extracted>>
    /\ UNCHANGED <<loaderVars, routerVars, wasmVars, filterVars, proxyVars>>

(***************************************************************************)
(* The node extractors of the KDL parser (river/src/config/kdl/mod.rs).    *)
(* A KDL value is written as its text; as_integer reads the texts of       *)
(* IntegerOf as integers and no other text.  Every integer of the model    *)
(* lies below usize::MAX, so usize::try_from fails on the negative ones.   *)
(***************************************************************************)
IntegerOf == ("-1" :> (0 - 1)) @@ ("0" :> 0) @@ ("1" :> 1) @@ ("2" :> 2)
\* KdlValue::as_integer
AsInteger(val) ==
    IF val \in DOMAIN IntegerOf THEN [some |-> TRUE, value |-> IntegerOf[val]]
    ELSE [some |-> FALSE, value |-> 0]
\* usize::try_from(v).ok()
UsizeTryFrom(v) ==
    IF v >= 0 THEN [some |-> TRUE, value |-> v] ELSE [some |-> FALSE, value |-> 0]

NoListener == [ok |-> FALSE, kind |-> "none", tls |-> FALSE, offer_h2 |-> FALSE, error |-> "none"]
ListenerError(msg) == [NoListener EXCEPT !.error = msg]
Tcp(tls, offer_h2) ==
    [ok |-> TRUE, kind |-> "Tcp", tls |-> tls, offer_h2 |-> offer_h2, error |-> "none"]
Uds == [ok |-> TRUE, kind |-> "Uds", tls |-> FALSE, offer_h2 |-> FALSE, error |-> "none"]

\* what the name of a listener node parses as, and its arguments
ListenerNodes ==
    [name : {"SocketAddr", "PathBuf"}, cert_path : {Absent, "cert.pem"},
     key_path : {Absent, "key.pem"}, offer_h2 : {Absent, "true", "false"}]

ExtractListenerH2ByDefault(node) ==
    IF node.name = "SocketAddr"
    THEN IF (node.cert_path = Absent) # (node.key_path = Absent)
         THEN ListenerError("'cert-path' and 'key-path' must either BOTH be present, or NEITHER should be present")
         ELSE Tcp(node.cert_path # Absent, node.offer_h2 # "false")
    ELSE Uds

ExtractListener(node) ==
    IF node.name = "SocketAddr"
    THEN CASE node.cert_path = Absent /\ node.key_path = Absent /\ node.offer_h2 = Absent ->
                 Tcp(FALSE, FALSE)
           [] (node.cert_path = Absent) # (node.key_path = Absent) ->
                 ListenerError("'cert-path' and 'key-path' must either BOTH be present, or NEITHER should be present")
           [] node.cert_path = Absent /\ node.key_path = Absent /\ node.offer_h2 # Absent ->
                 ListenerError("'offer-h2' requires TLS, specify 'cert-path' and 'key-path'")
           [] OTHER ->
                 \* offer_h2.unwrap_or(true)
                 Tcp(TRUE, IF node.offer_h2 = Absent THEN TRUE ELSE node.offer_h2 = "true")
    ELSE Uds

\* a threads-per-service node: whether it is there, and its entries
ThreadEntries == {<<>>, <<"-1">>, <<"0">>, <<"1">>, <<"2">>, <<"many">>, <<"1", "2">>}
ThreadNodes == [present : BOOLEAN, entries : ThreadEntries]
ThreadsError(msg) == [ok |-> FALSE, value |-> 0, error |-> msg]
Threads(n) == [ok |-> TRUE, value |-> n, error |-> "none"]
ThreadsWhenNoNode == 8

ExtractThreadsPerService(tps) ==
    IF ~tps.present THEN Threads(ThreadsWhenNoNode)
    ELSE IF Len(tps.entries) # 1
    THEN ThreadsError("system > threads-per-service should have exactly one entry")
    ELSE LET val == AsInteger(tps.entries[1]) IN
         IF ~val.some
         THEN ThreadsError("system > threads-per-service should be an integer")
         ELSE IF ~UsizeTryFrom(val.value).some
         THEN ThreadsError("system > threads-per-service should fit in a usize")
         ELSE Threads(UsizeTryFrom(val.value).value)

\* the system section: whether it is there, and its threads-per-service node
SystemSections == [present : BOOLEAN, threads_per_service : ThreadNodes]
\* extract_system_data, as far as threads_per_service goes
ExtractSystemData(sys) ==
    IF ~sys.present THEN Threads(DefaultThreads)
    ELSE ExtractThreadsPerService(sys.threads_per_service)

\* the thread counts a parsed system section can hand to make_rate_limiter
ThreadCounts ==
    {ExtractSystemData(sys).value : sys \in {s \in SystemSections : ExtractSystemData(s).ok}}

RateKeys == {"tokens-per-bucket", "refill-qty", "refill-rate-ms", "max-buckets"}
RateKinds == {"source-ip", "specific-uri", "any-matching-uri", "per-host"}
\* "1.5" is a value that is no integer
RateValues == {Absent, "-1", "0", "1", "1.5"}
RateRules == [kind : RateKinds, nums : [RateKeys -> RateValues], pattern : {Absent, "x", "("}]
NoRate == [ok |-> FALSE, flavour |-> "none", kind |-> "none", threads |-> 0, max_buckets |-> 0,
           max_tokens_per_bucket |-> 0, refill_interval_millis |-> 0, refill_qty |-> 0,
           error |-> "none"]
RateError(msg) == [NoRate EXCEPT !.error = msg]
NumError(msg) == [ok |-> FALSE, value |-> 0, error |-> msg]
Num(n) == [ok |-> TRUE, value |-> n, error |-> "none"]

\* the closure take_num
TakeNum(args, key) ==
    IF args.nums[key] = Absent THEN NumError("Missing key")
    ELSE LET val == AsInteger(args.nums[key]) IN
         IF ~val.some \/ ~UsizeTryFrom(val.value).some
         THEN NumError("should have a positive integer value")
         ELSE Num(UsizeTryFrom(val.value).value)

\* NonZeroUsize::new(take_num(key)?).ok_or_else(..)
TakeNonZero(args, key) ==
    LET n == TakeNum(args, key) IN
    IF n.ok /\ n.value = 0 THEN NumError("must be a positive") ELSE n

\* the closure regex_pattern
RegexPattern(args) ==
    IF args.pattern = Absent THEN NumError("Missing key")
    ELSE IF ~RegexNew(args.pattern) THEN NumError("should be a valid regular expression")
    ELSE Num(0)

MultiCfg(threads_per_service, args, kind, tokens_per_bucket, refill_qty, refill_rate_ms) ==
    LET max_buckets == TakeNum(args, "max-buckets") IN
    IF ~max_buckets.ok THEN RateError(max_buckets.error)
    ELSE [ok |-> TRUE, flavour |-> "Multi", kind |-> kind, threads |-> threads_per_service,
          max_buckets |-> max_buckets.value, max_tokens_per_bucket |-> tokens_per_bucket,
          refill_interval_millis |-> refill_rate_ms, refill_qty |-> refill_qty,
          error |-> "none"]

SingleCfg(kind, tokens_per_bucket, refill_qty, refill_rate_ms) ==
    [ok |-> TRUE, flavour |-> "Single", kind |-> kind, threads |-> 0, max_buckets |-> 0,
     max_tokens_per_bucket |-> tokens_per_bucket, refill_interval_millis |-> refill_rate_ms,
     refill_qty |-> refill_qty, error |-> "none"]

MakeRateLimiter(threads_per_service, args) ==
    LET tokens_per_bucket == TakeNonZero(args, "tokens-per-bucket")
        refill_qty == TakeNonZero(args, "refill-qty")
        refill_rate_ms == TakeNonZero(args, "refill-rate-ms")
        pattern == RegexPattern(args)
    IN
    IF ~tokens_per_bucket.ok THEN RateError(tokens_per_bucket.error)
    ELSE IF ~refill_qty.ok THEN RateError(refill_qty.error)
    ELSE IF ~refill_rate_ms.ok THEN RateError(refill_rate_ms.error)
    ELSE CASE args.kind = "source-ip" ->
                 MultiCfg(threads_per_service, args, "SourceIp", tokens_per_bucket.value,
                          refill_qty.value, refill_rate_ms.value)
           [] args.kind = "specific-uri" ->
                 IF ~pattern.ok THEN RateError(pattern.error)
                 ELSE MultiCfg(threads_per_service, args, "Uri", tokens_per_bucket.value,
                               refill_qty.value, refill_rate_ms.value)
           [] args.kind = "any-matching-uri" ->
                 IF ~pattern.ok THEN RateError(pattern.error)
                 ELSE SingleCfg("UriGroup", tokens_per_bucket.value, refill_qty.value,
                                refill_rate_ms.value)
           [] OTHER -> RateError("is not a known kind of rate limiting")

\* the nodes of a load-balance block: a selection with its argument and its
\* key, a health-check, a discovery, or a node of another name
MaxLbNodes == 3
SelectionKinds == {"RoundRobin", "Random", "FNV", "Ketama"}
SelectorKeys == {"UriPath", "SourceAddrAndUriPath"}
LbNodes ==
    [name : {"selection"}, arg : SelectionKinds \cup {"Fastest"},
     key : SelectorKeys \cup {Absent, "Cookie"}]
    \cup [name : {"health-check", "discovery", "weights"}, arg : {"ok"}, key : {Absent}]
\* the blocks of n nodes
LbBlocks(n) == [1..n -> LbNodes]

NoOptions == [ok |-> FALSE, selection |-> "none", selector |-> "none", error |-> "none"]
LbState == [ok |-> TRUE, selection |-> "unset", selector |-> "null_selector", error |-> "none"]
LbError(msg) == [NoOptions EXCEPT !.error = msg]

\* a loop turn that takes a hash selection whether or not its key is known
LbTurnKeyOptional(st, node) ==
    CASE node.name = "selection" ->
             IF node.arg \notin SelectionKinds THEN LbError("invalid selection")
             ELSE IF node.key = "UriPath"
             THEN [st EXCEPT !.selection = node.arg, !.selector = "uri_path_selector"]
             ELSE IF node.key = "SourceAddrAndUriPath"
             THEN [st EXCEPT !.selection = node.arg,
                             !.selector = "source_addr_and_uri_path_selector"]
             ELSE [st EXCEPT !.selection = node.arg]
      [] node.name \in {"health-check", "discovery"} -> st
      [] OTHER -> LbError("Unknown setting")

\* one turn of the loop of extract_load_balance over the nodes of the block
LbTurn(st, node) ==
    CASE node.name = "selection" ->
             IF node.arg \notin SelectionKinds THEN LbError("invalid selection")
             ELSE IF node.arg \in {"RoundRobin", "Random"}
             THEN [st EXCEPT !.selection = node.arg]
             ELSE IF node.key = Absent THEN LbError("selection requires a 'key' argument")
             ELSE IF node.key = "UriPath"
             THEN [st EXCEPT !.selection = node.arg, !.selector = "uri_path_selector"]
             ELSE IF node.key = "SourceAddrAndUriPath"
             THEN [st EXCEPT !.selection = node.arg,
                             !.selector = "source_addr_and_uri_path_selector"]
             ELSE LbError("Unknown key")
      [] node.name \in {"health-check", "discovery"} -> st
      [] OTHER -> LbError("Unknown setting")

RECURSIVE LbLoop(_, _)
LbLoop(st, items) ==
    IF items = <<>> \/ ~st.ok THEN st
    ELSE LbLoop(LbTurn(st, Head(items)), Tail(items))

ExtractLoadBalance(items) ==
    LET st == LbLoop(LbState, items) IN
    IF ~st.ok THEN st
    ELSE \* selection.unwrap_or(SelectionKind::RoundRobin)
         [st EXCEPT !.selection = IF st.selection = "unset" THEN "RoundRobin" ELSE @]

NoExtract == [fn |-> "none"]

CallExtractListener ==
    /\ kstate = "extract" /\ extracted = NoExtract
    /\ \E node \in ListenerNodes :
          extracted' = [fn |-> "extract_listener", node |-> node,
                        result |-> ExtractListener(node)]
    /\ UNCHANGED <<kstate, proxies, file_servers, svc_node, kresult, cli>>
    /\ UNCHANGED <<loaderVars, routerVars, wasmVars, filterVars, proxyVars>>

CallExtractSystemData ==
    /\ kstate = "extract" /\ extracted = NoExtract
    /\ \E sys \in SystemSections :
          extracted' = [fn |-> "extract_system_data", node |-> sys,
                        result |-> ExtractSystemData(sys)]
    /\ UNCHANGED <<kstate, proxies, file_servers, svc_node, kresult, cli>>
    /\ UNCHANGED <<loaderVars, routerVars, wasmVars, filterVars, proxyVars>>

CallMakeRateLimiter ==
    /\ kstate = "extract" /\ extracted = NoExtract
    /\ \E threads_per_service \in ThreadCounts, args \in RateRules :
          extracted' = [fn |-> "make_rate_limiter", node |-> args,
                        threads_per_service |-> threads_per_service,
                        result |-> MakeRateLimiter(threads_per_service, args)]
    /\ UNCHANGED <<kstate, proxies, file_servers, svc_node, kresult, cli>>
    /\ UNCHANGED <<loaderVars, routerVars, wasmVars, filterVars, proxyVars>>

CallExtractLoadBalance ==
    /\ kstate = "extract" /\ extracted = NoExtract
    /\ \E n \in 0..MaxLbNodes : \E items \in LbBlocks(n) :
          extracted' = [fn |-> "extract_load_balance", node |-> items,
                        result |-> ExtractLoadBalance(items)]
    /\ UNCHANGED <<kstate, proxies, file_servers, svc_node, kresult, cli>>
    /\ UNCHANGED <<loaderVars, routerVars, wasmVars, filterVars, proxyVars>>

InitKdl(state) ==
    /\ kstate = state
    /\ proxies = <<>>
    /\ file_servers = <<>>
    /\ svc_node = NoNode
    /\ kresult = Fine
    /\ cli = NoCli
    /\ extracted = NoExtract

InitKdlIdle == InitKdl("off")

InitLoader(n) ==
    /\ fs = [f \in Files |-> Unread]
    /\ budget = n
    /\ visited_paths = {}
    /\ documents = <<>>
    /\ stack = <<>>
    /\ pc = "start"
    /\ result = NoResult
    /\ global_definitions = EmptyTable
    /\ reads = [f \in Files |-> 0]
    /\ loadedBy = {}

InitOthersIdle == InitKdlIdle /\ InitFilterIdle /\ InitProxyIdle

Init == InitLoader(MaxIncludes) /\ InitRouterIdle /\ InitWasmIdle /\ InitOthersIdle

Next ==
    \/ LoadEntryPoint(FALSE)
    \/ CallInclude(FALSE)
    \/ Return
    \/ BuildConfig

Spec == Init /\ [][Next]_vars

InitBuild == InitLoader(MaxBuildIncludes) /\ InitRouterIdle /\ InitWasmIdle /\ InitOthersIdle

NextBuild ==
    \/ LoadEntryPoint(TRUE)
    \/ CallInclude(TRUE)
    \/ Return
    \/ BuildConfig

SpecBuild == InitBuild /\ [][NextBuild]_vars

InitRouter ==
    /\ InitLoader(0)
    /\ InitWasmIdle
    /\ InitOthersIdle
    /\ router = {}
    /\ rstate = "building"
    /\ lookup = NoLookup
    /\ selector_buf = <<>>
    /\ cursor = 0
    /\ picked = NoPick
    /\ rejected = None

NextRouter ==
    \/ BuildInsert
    \/ BuildFinish
    \/ Lookup

SpecRouter == InitRouter /\ [][NextRouter]_vars

\* a router of one upstream, with any balancer, serving requests
InitPeer ==
    /\ InitLoader(0)
    /\ InitWasmIdle
    /\ InitOthersIdle
    /\ \E item \in PeerUpstreams :
          LET built == BuildFrom({}, <<item>>) IN
          /\ built.ok
          /\ router = built.router
    /\ rstate = "serving"
    /\ lookup = NoLookup
    /\ selector_buf = <<>>
    /\ cursor = 0
    /\ picked = NoPick
    /\ rejected = None

NextPeer == PickPeer

SpecPeer == InitPeer /\ [][NextPeer]_vars

InitWasm == InitLoader(0) /\ InitRouterIdle /\ InitWasmIdle /\ InitOthersIdle

NextWasm ==
    \E c \in Callers :
        \/ CallFilter(c)
        \/ Resume(c)
        \/ GuestEnter(c)
        \/ GuestReturn(c)

SpecWasm == InitWasm /\ [][NextWasm]_vars

\* The runtime polls every task that was woken and a guest call terminates:
\* a caller that holds the lock goes on to its guest call and returns from
\* it.  Nothing makes an idle caller call.
SpecWasmFair ==
    /\ SpecWasm
    /\ \A c \in Callers :
          WF_vars(Resume(c)) /\ WF_vars(GuestEnter(c)) /\ WF_vars(GuestReturn(c))

InitFilter ==
    InitLoader(0) /\ InitRouterIdle /\ InitWasmIdle /\ InitKdlIdle /\ InitFilterIdle
    /\ InitProxyIdle

NextFilter == RegisterFactoryCall

SpecFilter == InitFilter /\ [][NextFilter]_vars

\* the filter chain is built, then a response runs through it
NextResponse ==
    \/ RegisterFactoryCall
    \/ ReceiveResponse
    \/ UpstreamResponseFilter

SpecResponse == InitFilter /\ [][NextResponse]_vars

\* a service of ServiceConfigs is about to start
InitProxy ==
    /\ InitLoader(0) /\ InitRouterIdle /\ InitWasmIdle /\ InitKdlIdle /\ InitFilterIdle
    /\ \E config \in ServiceConfigs :
          service = [state |-> "configured", router |-> {}, config |-> config]
    /\ exchange = NoExchange

NextProxy ==
    \/ StartService
    \/ Request

SpecProxy == InitProxy /\ [][NextProxy]_vars

InitConfig ==
    /\ InitLoader(0) /\ InitRouterIdle /\ InitWasmIdle /\ InitFilterIdle /\ InitProxyIdle
    /\ InitKdl("loop")

NextConfig ==
    \/ VisitService
    \/ PushService
    \/ ReturnServices
    \/ CallBuildRoutes
    \/ CallBuildHello

SpecConfig == InitConfig /\ [][NextConfig]_vars

\* one call of a node extractor on a node of its kind
InitExtract ==
    /\ InitLoader(0) /\ InitRouterIdle /\ InitWasmIdle /\ InitFilterIdle /\ InitProxyIdle
    /\ InitKdl("extract")

NextExtract ==
    \/ CallExtractListener
    \/ CallExtractSystemData
    \/ CallMakeRateLimiter
    \/ CallExtractLoadBalance

SpecExtract == InitExtract /\ [][NextExtract]_vars

(***************************************************************************)
(* Properties of the loader.                                               *)
(***************************************************************************)
ReadFiles == { f \in Files : fs[f] # Unread }
IncludedFiles(f) == { fs[f].includes[i].file : i \in DOMAIN fs[f].includes } \cap Files
Step(S) == S \cup UNION { IncludedFiles(g) : g \in S }
\* the files f reaches through one or more include directives
ReachedFrom(f) == Step(Step(IncludedFiles(f)))
OnCycle(f) == f \in ReachedFrom(f)
Terminated == pc \in {"done", "failed"}

\* C1: include idempotence: however often and under whatever spelling a file
\* is included, its document occurs once in the document list.
C1_IncludeIdempotence ==
    \A i, j \in DOMAIN documents :
        documents[i].path.file = documents[j].path.file => i = j

\* C2: cycle breaking: the load never gets stuck before it ends, and a file
\* on an include cycle is not read a second time.
C2_CycleBreaking ==
    /\ \A f \in Files : OnCycle(f) => reads[f] <= 1
    /\ ~Terminated => ENABLED Next

\* C3: document order: after a successful load the entry point's document is
\* the last one, every document comes after the documents first visited
\* through it, and those stand in the order of their include directives.
C3_DocumentOrder ==
    pc \in {"loaded", "done"} =>
        /\ documents # <<>>
        /\ documents[Len(documents)].path = RootPath
        /\ \A i, j \in DOMAIN documents :
              [path |-> documents[j].path, by |-> documents[i].path] \in
                  { [path |-> l.path, by |-> l.by] : l \in loadedBy } => j < i
        /\ \A l1, l2 \in loadedBy :
              l1.by = l2.by /\ l1.idx < l2.idx =>
                 \A j, k \in DOMAIN documents :
                    documents[j].path = l1.path /\ documents[k].path = l2.path => j < k

\* a successful load of three documents where an included file includes the
\* entry point back
C3_Witness ==
    /\ pc = "loaded"
    /\ Len(documents) >= 3
    /\ \E f \in Files \ {Entry} : Entry \in IncludedFiles(f) /\ f \in IncludedFiles(Entry)

\* the system data the entry point's file asks for
EntrySystem == ParseSystemData(fs[Entry])
\* the documents other than the entry point's
IncludedDocs == { i \in DOMAIN documents : documents[i].path # RootPath }

RECURSIVE ServicesOf(_)
ServicesOf(docs) ==
    IF docs = <<>> THEN <<>>
    ELSE fs[Head(docs).path.file].services \o ServicesOf(Tail(docs))

\* C4: the system data of the resulting Config is that of the entry point's
\* system section (the defaults when it has none) whatever the included files
\* say; only a bad system section of the entry point fails the system step;
\* the services are those of all loaded documents.
C4_SystemFromEntryOnly ==
    pc = "done" =>
        /\ result.ok =>
              /\ EntrySystem.ok
              /\ result.config.threads_per_service = EntrySystem.threads_per_service
              /\ result.config.daemonize = EntrySystem.daemonize
              /\ result.config.upgrade_socket = EntrySystem.upgrade_socket
              /\ result.config.pid_file = EntrySystem.pid_file
              /\ ~fs[Entry].system.present =>
                    /\ result.config.threads_per_service = 8
                    /\ result.config.daemonize = FALSE
                    /\ result.config.upgrade_socket = "none"
                    /\ result.config.pid_file = "none"
              /\ result.config.basic_proxies = ServicesOf(documents)
        /\ result.error = "system" <=> ~EntrySystem.ok

\* a Config built from an entry point and an included file that has a system
\* section of its own, with other values, and a service
C4_Witness ==
    /\ pc = "done"
    /\ result.ok
    /\ \E i \in IncludedDocs :
          /\ documents[i].body.system.present
          /\ ParseSystemData(documents[i].body).daemonize # result.config.daemonize
          /\ documents[i].body.services # <<>>
    /\ Len(result.config.basic_proxies) >= 2

\* a leaf defined in two of the files that were read
DuplicatedLeaves ==
    { l \in Leaves : \E f, g \in ReadFiles : f # g /\ l \in fs[f].defs /\ l \in fs[g].defs }

C6_NamespaceMerge ==
    pc = "done" /\ EntrySystem.ok /\ DuplicatedLeaves = {} /\ result.use_chain = NoUses =>
        /\ result.ok
        /\ global_definitions = UNION { fs[f].defs : f \in ReadFiles }
        /\ GetAvailableFilters(global_definitions) =
              GetAvailableFilters(Merge(EmptyTable, UNION { fs[f].defs : f \in ReadFiles }).table)

(***************************************************************************)
(* Properties of the router.                                               *)
(***************************************************************************)
IsLiteral(p) == \A i \in DOMAIN p : p[i] \notin Wildcards
Root == <<Slash>>
PathA == <<Slash, "a">>
PathAB == <<Slash, "a", Slash, "b">>

\* C7: the scratch buffer a request finds at the start of selection is empty,
\* and it is empty again whenever pick_peer has returned.
C7_SelectorBufferEmpty ==
    /\ selector_buf = <<>>
    /\ picked.seen = 0

\* a backend was picked with a key the selector wrote into the scratch buffer
C7_Witness ==
    /\ picked.outcome = "peer"
    /\ picked.key # <<>>
    /\ picked.key[1] = SourceAddr
    /\ selector_buf = <<>>

\* C9: an Exact route with a literal path is the answer for its own path and
\* for no other path.
C9_ExactMatchesOnlyIdentical ==
    rstate = "built" /\ lookup.path # <<>> =>
        /\ lookup.result.some /\ lookup.result.value.matcher = "Exact"
              /\ IsLiteral(lookup.result.value.prefix)
              => lookup.path = lookup.result.value.prefix
        /\ \A e \in router :
              e.value.matcher = "Exact" /\ e.value.prefix = lookup.path
                 => lookup.result = Some(e.value)

\* with an Exact "/a" and a Prefix "/", the path "/a/b" gets the root route
C9_Witness ==
    /\ rstate = "built"
    /\ \E e \in router : e.value.matcher = "Exact" /\ e.value.prefix = PathA
    /\ lookup.path = PathAB
    /\ lookup.result.some
    /\ lookup.result.value.matcher = "Prefix"
    /\ lookup.result.value.prefix = Root

\* another route of the router matches the path more specifically than e
MoreSpecific(e, path) ==
    \E o \in router :
        /\ o # e
        /\ Matches(o.pattern, path)
        /\ (~HasCatchAll(o.pattern) \/ Len(StaticPart(o.pattern)) > Len(StaticPart(e.pattern)))

\* C10: a Prefix route is the answer for its bare prefix and for every path
\* below it, and a Prefix route on "/" for every path, unless a more specific
\* route matches.
C10_PrefixCoversPrefixAndBelow ==
    rstate = "built" /\ lookup.path # <<>> =>
        \A e \in router :
            LET P == TrimEndSlashes(e.value.prefix) IN
            /\ e.value.matcher = "Prefix"
            /\ \/ lookup.path = P
               \/ IsPrefixOf(P \o <<Slash>>, lookup.path) /\ Len(lookup.path) > Len(P) + 1
               \/ P = <<>>
            /\ ~MoreSpecific(e, lookup.path)
            => lookup.result = Some(e.value)

\* the inserted routes whose pattern matches the path
Hits(path) == { e \in router : Matches(e.pattern, path) }
\* the inserted routes that match with static text only, with a catch-all
ExactHits(path) == { e \in Hits(path) : ~HasCatchAll(e.pattern) }
PrefixHits(path) == { e \in Hits(path) : HasCatchAll(e.pattern) }

Orders(S) ==
    { seq \in [1..Cardinality(S) -> S] : \A i, j \in 1..Cardinality(S) : seq[i] = seq[j] => i = j }

\* C12: router determinism: the routes of a router that was built build in
\* every order, and in every order a lookup of the path gives the same route.
C12_RouterDeterminism ==
    rstate = "built" /\ lookup.path # <<>> =>
        \A paths \in Orders({ e.value : e \in router }) :
            LET built == BuildFrom({}, paths) IN
            /\ built.ok
            /\ GetUpstreamByPath(built.router, lookup.path) = lookup.result

\* a router of three routes, a prefix route below the root prefix route among
\* them, answered a lookup with the deeper route
C12_Witness ==
    /\ rstate = "built"
    /\ Cardinality(router) = 3
    /\ Cardinality(PrefixHits(lookup.path)) >= 2
    /\ lookup.result.some
    /\ lookup.result.value.prefix # Root

ExplicitWildcard == <<Slash, "a", Slash, "{*foo}">>

\* C13: an Exact route whose path holds a catch-all parameter is inserted as
\* written, and as the only route of the router it is the answer for a path
\* below its static part.
C13_ExplicitWildcard ==
    /\ \A e \in router : e.value.matcher = "Exact" => e.pattern = e.value.prefix
    /\ rstate = "built" /\ lookup.path # <<>> =>
          \A e \in router :
              /\ router = {e}
              /\ e.value.matcher = "Exact"
              /\ e.value.prefix = ExplicitWildcard
              /\ IsPrefixOf(<<Slash, "a", Slash>>, lookup.path)
              /\ Len(lookup.path) > 3
              => lookup.result = Some(e.value)

\* the single route Exact "/a/{*foo}" answered the lookup of "/a/b"
C13_Witness ==
    /\ rstate = "built"
    /\ \E e \in router :
          router = {e} /\ e.value.matcher = "Exact" /\ e.value.prefix = ExplicitWildcard
    /\ lookup.path = PathAB
    /\ lookup.result.some
    /\ lookup.result.value.prefix = ExplicitWildcard

(***************************************************************************)
(* Properties of the extension module host.                                *)
(***************************************************************************)
\* C8: at most one guest call runs against the component's store at a time;
\* it is the lock holder's, and a caller awaiting the lock is not in the store.
C8_SingleWriter ==
    /\ Cardinality(in_store) <= 1
    /\ \A c \in in_store : holder = c /\ cpc[c] = "in_guest"
    /\ \A c \in Callers : cpc[c] = "waiting" => c \notin in_store

\* a guest call is running while two other callers await the lock
C8_Witness ==
    /\ Cardinality(in_store) = 1
    /\ Len(waiters) >= 2

(***************************************************************************)
(* Properties of a running service.                                        *)
(***************************************************************************)
\* C14: a service whose only connector is `return code="200" response="OK"`
\* answers a GET of any path with 200, the body "OK" and the text/plain
\* content type, keep-alive off and the body finished.
C14_ReturnAction ==
    /\ service.state = "running"
    /\ service.config.kind = "return"
    /\ service.config.args = [code |-> "200", response |-> "OK"]
    /\ exchange.path # <<>>
    => /\ exchange.status = "200"
       /\ exchange.body = "OK"
       /\ ContentType \in exchange.headers
       /\ exchange.keepalive = "off"
       /\ exchange.finished

\* the path is the route's prefix or lies below it
Under(prefix_path, path) ==
    \/ path = prefix_path
    \/ IsPrefixOf(prefix_path \o <<Slash>>, path) /\ Len(path) > Len(prefix_path) + 1

\* C15: with the two prefix routes, a request whose path is under a route's
\* prefix reaches that route's upstream with exactly that route's chain
\* applied, and no request has the chain of the other route applied.
C15_PerRouteChains ==
    /\ service.state = "running"
    /\ service.config.kind = "routes"
    /\ \A i \in DOMAIN service.config.upstreams : service.config.upstreams[i].matcher = "Prefix"
    /\ exchange.path # <<>>
    => \A i \in DOMAIN service.config.upstreams :
          LET route == service.config.upstreams[i] IN
          /\ Under(route.prefix, exchange.path) =>
                /\ exchange.peer = route.peer
                /\ exchange.applied = route.chain
          /\ exchange.applied = route.chain => Under(route.prefix, exchange.path)

\* the part of C15 that holds: a chain is applied only to requests its own
\* route matched, together with that route's upstream
C15_ChainOfMatchedRouteOnly ==
    service.state = "running" /\ service.config.kind = "routes" /\ exchange.path # <<>> =>
        \A i \in DOMAIN service.config.upstreams :
            LET route == service.config.upstreams[i] IN
            exchange.applied = route.chain =>
                /\ exchange.peer = route.peer
                /\ Matches(Pattern(Context(route)), exchange.path)

(***************************************************************************)
(* Properties of the filter factories.                                     *)
(***************************************************************************)
\* the keys a filter takes from its settings
OwnKeys(kind) ==
    IF kind = "river.response.upsert-header" THEN {"key", "value"} ELSE {"pattern"}

\* C16: a factory fails when the settings hold a key that is not one of the
\* filter's own keys.
C16_LeftoverSettingsRejected ==
    factory.kind # "none" =>
        ((\E k \in SettingKeys \ OwnKeys(factory.kind) : factory.settings[k] # Absent)
            => ~factory.result.ok)

(***************************************************************************)
(* Properties of the services section and of the CLI builders.             *)
(***************************************************************************)
\* a service node was visited by the loop of extract_services
Visited == svc_node.name # "none"
ChildSet == Range(svc_node.children)
\* the listeners section of the visited node is there and sound
ListenersFine == ExtractListeners(svc_node.children, svc_node.listeners).ok

C17_PushFollowsClass ==
    [][kstate = "visited" /\ kstate' = "loop" =>
          IF svc_node.class = "proxy"
          THEN proxies' = Append(proxies, svc_node.outcome.config) /\ file_servers' = file_servers
          ELSE file_servers' = Append(file_servers, svc_node.outcome.config) /\ proxies' = proxies]_vars

\* C18: a service with a repeated child section is rejected with "Duplicate
\* section" naming the first repeated section, before it is classified and
\* before any of its children is parsed.
C18_DuplicateSections ==
    Visited /\ Duplicates(svc_node.children) # {} =>
        /\ kstate = "failed"
        /\ kresult.error = "Duplicate section"
        /\ kresult.what = {FirstDuplicate(svc_node.children)}
        /\ svc_node.class = "none"
        /\ svc_node.listeners = <<>> /\ svc_node.connectors = <<>>

\* two listeners blocks are reported as a duplicate
C18_Witness ==
    /\ svc_node.children = <<"listeners", "listeners">>
    /\ kresult = Bad("Duplicate section", {"listeners"})

\* the connectors section of the visited node was processed
ConnectorsProcessed ==
    /\ Visited
    /\ svc_node.class = "proxy"
    /\ ListenersFine
    /\ "connectors" \in ChildSet
LoadBalanceBlocks == { i \in DOMAIN svc_node.connectors : svc_node.connectors[i] = "load-balance" }
\* the position of the second load-balance block
SecondBlock ==
    CHOOSE i \in LoadBalanceBlocks :
        Cardinality({ j \in LoadBalanceBlocks : j < i }) = 1

C20_ProxyConfigInvariant ==
    /\ \A i \in DOMAIN proxies :
          Len(proxies[i].listeners) >= 1 /\ Len(proxies[i].upstreams) >= 1
    /\ cli.called # "none" /\ cli.result.res.ok =>
          Len(cli.result.config.listeners) >= 1 /\ Len(cli.result.config.upstreams) >= 1
    /\ Visited /\ svc_node.class = "proxy" /\ svc_node.outcome.res.ok =>
          Len(svc_node.outcome.config.listeners) >= 1
          /\ Len(svc_node.outcome.config.upstreams) >= 1
    /\ ConnectorsProcessed /\ Cardinality(LoadBalanceBlocks) <= 1
          /\ Range(svc_node.connectors) \subseteq {"load-balance"}
          => kresult = Bad("We require at least one connector", {})
    /\ Visited /\ svc_node.class \in {"proxy", "file-server"} /\ "listeners" \in ChildSet
          /\ svc_node.listeners = <<>>
          => kresult = Bad("nonzero listeners required", {})

\* the part of C20 about the service parser alone
C20_ParsedServicesHaveBoth ==
    cli.called = "none" =>
        \A i \in DOMAIN proxies :
            Len(proxies[i].listeners) >= 1 /\ Len(proxies[i].upstreams) >= 1

(***************************************************************************)
(* Properties of the node extractors.                                      *)
(***************************************************************************)
TcpNode == extracted.fn = "extract_listener" /\ extracted.node.name = "SocketAddr"
HasTls(node) == node.cert_path # Absent /\ node.key_path # Absent

\* C21: an accepted TCP listener has cert-path and key-path both or neither
\* and offers h2 only with TLS; exactly one of the two paths, or offer-h2
\* without TLS, fails; with TLS offer_h2 defaults to true, without it is false.
C21_ListenerInvariant ==
    TcpNode =>
        LET node == extracted.node
            listener == extracted.result
        IN  /\ listener.ok =>
                  /\ (node.cert_path = Absent) = (node.key_path = Absent)
                  /\ listener.tls = HasTls(node)
                  /\ listener.offer_h2 => listener.tls
            /\ (node.cert_path = Absent) # (node.key_path = Absent) => ~listener.ok
            /\ node.offer_h2 # Absent /\ ~HasTls(node) => ~listener.ok
            /\ HasTls(node) /\ node.offer_h2 = Absent => listener.ok /\ listener.offer_h2
            /\ listener.ok /\ ~HasTls(node) => ~listener.offer_h2

C21_Witness ==
    /\ TcpNode /\ HasTls(extracted.node) /\ extracted.node.offer_h2 = Absent
    /\ extracted.result.ok /\ extracted.result.offer_h2

\* C22: an accepted rate-limiting rule has every numeric field above zero,
\* max-buckets and threads included for the multi kinds; a rule with a field
\* that is 0, negative or no integer is rejected.
C22_RatePositive ==
    extracted.fn = "make_rate_limiter" =>
        LET rule == extracted.node
            config == extracted.result
            used == IF rule.kind = "any-matching-uri"
                    THEN RateKeys \ {"max-buckets"} ELSE RateKeys
        IN  /\ config.ok =>
                  /\ config.max_tokens_per_bucket > 0
                  /\ config.refill_qty > 0
                  /\ config.refill_interval_millis > 0
                  /\ config.flavour = "Multi" => config.max_buckets > 0 /\ config.threads > 0
            /\ (\E key \in used : rule.nums[key] \in {"0", "-1", "1.5"}) => ~config.ok

\* C23: threads_per_service is 8 when the system section or the node is
\* absent; a configured value is accepted only if it is an integer of at
\* least 1; 0 and negative values are rejected.
C23_ThreadsPositive ==
    extracted.fn = "extract_system_data" =>
        LET sys == extracted.node
            tps == sys.threads_per_service
            data == extracted.result
        IN  IF ~sys.present \/ ~tps.present
            THEN data.ok /\ data.value = 8
            ELSE /\ data.ok => /\ Len(tps.entries) = 1
                               /\ AsInteger(tps.entries[1]).some
                               /\ data.value = AsInteger(tps.entries[1]).value
                               /\ data.value >= 1
                 /\ tps.entries \in {<<"0">>, <<"-1">>} => ~data.ok

\* C24: an accepted load-balance block whose selection is FNV or Ketama has a
\* selector that is not the null selector, whatever selection nodes it has
\* and in whatever order; FNV or Ketama without key or with an unknown key
\* is rejected.
C24_HashSelectionHasSelector ==
    extracted.fn = "extract_load_balance" =>
        LET items == extracted.node
            options == extracted.result
        IN  /\ options.ok /\ options.selection \in {"FNV", "Ketama"}
                  => options.selector # "null_selector"
            /\ (\E i \in DOMAIN items :
                   /\ items[i].name = "selection" /\ items[i].arg \in {"FNV", "Ketama"}
                   /\ items[i].key \notin SelectorKeys) => ~options.ok

\* several selection nodes, the last of them a hash selection after a
\* selection that needs no key
C24_Witness ==
    /\ extracted.fn = "extract_load_balance" /\ extracted.result.ok
    /\ extracted.result.selection \in {"FNV", "Ketama"}
    /\ \E i, j \in DOMAIN extracted.node :
          /\ i < j
          /\ extracted.node[i].name = "selection" /\ extracted.node[i].arg = "RoundRobin"
          /\ extracted.node[j].name = "selection"

(***************************************************************************)
(* Properties of the response filters.                                     *)
(***************************************************************************)
Ran(kind) == factory.kind = kind /\ Len(upstream_response.trail) >= 2

\* C25: after a run of response upsert-header the header named key has
\* exactly one value, the configured one, and every other header is as it
\* was; a second run leaves the header set of the first.
C25_UpsertHeader ==
    Ran("river.response.upsert-header") =>
        LET filter == factory.result.filter
            before == upstream_response.trail[1]
            after == upstream_response.trail[2]
        IN  /\ filter["key"] \in DOMAIN after
            /\ after[filter["key"]] = <<filter["value"]>>
            /\ \A n \in DOMAIN before \ {filter["key"]} : after[n] = before[n]
            /\ Len(upstream_response.trail) >= 3 => upstream_response.trail[3] = after

\* C26: a run of response remove-header leaves no header whose name matches
\* the pattern and leaves every other header as it was, also when names
\* carry several values; the assertion in its loop never fails.
C26_RemoveHeader ==
    Ran("river.response.remove-header") =>
        LET filter == factory.result.filter
            before == upstream_response.trail[1]
            after == upstream_response.trail[2]
        IN  /\ ~upstream_response.panicked
            /\ \A n \in DOMAIN before :
                  after[n] = IF IsMatch(filter["pattern"], n) THEN <<>> ELSE before[n]

\* two matching names are removed, one of them with two values
C26_Witness ==
    /\ Ran("river.response.remove-header")
    /\ Len(upstream_response.trail[1]["x"]) = 2 /\ upstream_response.trail[1]["xy"] # <<>>
    /\ upstream_response.trail[1]["b"] # <<>>
    /\ upstream_response.trail[2]["x"] = <<>> /\ upstream_response.trail[2]["xy"] = <<>>

(***************************************************************************)
(* Properties of build_config's order of steps.                            *)
(***************************************************************************)
\* the leaves that two documents of the list define
Collisions ==
    { l \in Leaves : \E i, j \in DOMAIN documents :
                        i # j /\ l \in documents[i].body.defs /\ l \in documents[j].body.defs }
\* the chains some document of the list defines
DefinedChains ==
    GetAvailableFilters(global_definitions \cup UNION { documents[i].body.defs : i \in DOMAIN documents })
\* the services that name a chain no document defines
Dangling ==
    { f \in Files : result.use_chain[f] # NoChain /\ result.use_chain[f] \notin DefinedChains }
EntryBodyOk == ParseSystemData(documents[Len(documents)].body).ok

C27_ForwardReference ==
    /\ pc = "done" /\ result.ok
    /\ \E i, j \in DOMAIN documents :
          /\ i < j
          /\ \E f \in Range(documents[i].body.services) :
                /\ result.use_chain[f] # NoChain
                /\ \E l \in documents[j].body.defs :
                      l.kind = "chain" /\ l.fqdn = result.use_chain[f]

(***************************************************************************)
(* Properties of pick_peer's two ways out.                                 *)
(***************************************************************************)
\* C28: a pick_peer call for a path that no route matches returns no
\* upstream, calls neither the selector nor the balancer, and leaves the
\* selector buffer and the round-robin cursor as they were; a call for a
\* path that a route matches consults the balancer once.
C28_MissWithoutSideEffects ==
    [][ /\ Hits(picked'.path) = {} =>
              /\ picked'.outcome = "no upstream"
              /\ picked'.selector_calls = 0 /\ picked'.select_calls = 0
              /\ selector_buf' = selector_buf
              /\ cursor' = cursor
        /\ Hits(picked'.path) # {} =>
              /\ picked'.outcome \in {"peer", "error"}
              /\ picked'.selector_calls = 1 /\ picked'.select_calls = 1 ]_vars

\* a miss on a router whose round-robin cursor had moved on before
C28_Witness ==
    /\ picked.outcome = "no upstream"
    /\ Hits(picked.path) = {}
    /\ cursor # 0

(***************************************************************************)
(* Properties of build's error path.                                       *)
(***************************************************************************)
\* a pattern with its parameter's name left out
Unnamed(pat) == [i \in DOMAIN pat |-> IF pat[i] \in Wildcards THEN CatchAll ELSE pat[i]]
\* two upstreams whose routes normalise to the same trie pattern
SameTriePattern(a, b) == Unnamed(Pattern(a)) = Unnamed(Pattern(b))

\* C29: build fails at the first upstream whose route normalises to the
\* pattern of a route inserted before it: it returns the InsertError and no
\* router, no route is overwritten or dropped from the trie, and the routes
\* of a router that was built have pairwise different patterns.
C29_ConflictFailsBuild ==
    [][ /\ rstate # "error"
        /\ router \subseteq router'
        /\ rstate' = "error" =>
              /\ router' = router
              /\ rejected'.some
              /\ \/ \E e \in router : SameTriePattern(e.value, rejected'.value)
                 \/ ~ValidPattern(Pattern(rejected'.value))
        /\ rstate = "building" /\ rstate' = "building" =>
              \E item \in Upstreams({MockBalancer}) :
                  /\ router' = router \cup {[pattern |-> Pattern(item), value |-> item]}
                  /\ \A e \in router : ~SameTriePattern(e.value, item)
        /\ rstate' = "built" =>
              /\ ~rejected'.some
              /\ \A e1, e2 \in router' :
                    e1 # e2 => ~SameTriePattern(e1.value, e2.value) ]_vars

\* the Prefix route "/a/" was rejected after the Prefix route "/a"
C29_Witness ==
    /\ rstate = "error"
    /\ rejected.some
    /\ rejected.value.matcher = "Prefix" /\ rejected.value.prefix = <<Slash, "a", Slash>>
    /\ \E e \in router : e.value.matcher = "Prefix" /\ e.value.prefix = PathA

(***************************************************************************)
(* Progress of the callers of an extension module.                         *)
(***************************************************************************)
\* the lock is free with nobody queued, or it is held by a caller that is on
\* its way through its call
LockInUse ==
    IF holder = 0 THEN waiters = <<>>
    ELSE cpc[holder] \in {"waiting", "locked", "in_guest"}

\* C30: the lock is held only by a caller that is still in its call: a
\* caller whose call returned, with whatever result, holds it no more; and
\* every caller that waits for the lock comes to run its guest call.
C30_EveryWaiterServed ==
    /\ [](LockInUse /\ \A c \in Callers : cpc[c] = "idle" => holder # c)
    /\ \A c \in Callers : (cpc[c] = "waiting") ~> (cpc[c] = "in_guest")

\* a call failed and the lock went to the caller that waited for it
C30_Witness ==
    \E c, d \in Callers :
        /\ c # d
        /\ outcome[c] = "Err" /\ cpc[c] = "idle"
        /\ holder = d /\ cpc[d] = "waiting"
        /\ \A e \in Callers \ {c} : outcome[e] = "none"

====
